---- MODULE Spec2Model ----
(***************************************************************************)
(* A model of packages/tdl/src/client.js (telepilotco/tdl): the TdlDeferred *)
(* gate, the Client session (connect / login / invoke / pause / resume /    *)
(* destroy / close), its receive loop, the message router and the           *)
(* authentication state machine.                                            *)
(*                                                                          *)
(* A step of the model is one run-to-completion segment of JavaScript: the  *)
(* synchronous code between two suspension points.  The methods and         *)
(* handlers are functions from session to session; the field `out` of the   *)
(* session they return lists what the step made observable (events          *)
(* published on the emitter, futures settled, engine calls, callbacks       *)
(* invoked), in program order.                                              *)
(***************************************************************************)
EXTENDS Naturals, Sequences, FiniteSets, TLC

(* ------------------------------ bounds --------------------------------- *)
\* invoke() calls per run (each draws a fresh uuid)
MaxInvoke == 2
\* connect() calls per run
MaxConnect == 2
\* login() calls per run
MaxLogin == 2
\* close() calls per run
MaxClose == 1
\* detached _handleAuth runs suspended at the same time
MaxTasks == 1
\* operations applied to the stand-alone TdlDeferred
MaxGateOps == 4
\* resolvers handed to the stand-alone TdlDeferred
MaxDefers == 2
\* observations kept in the recorded history
MaxTrace == 5

(* --------------------------- message alphabet -------------------------- *)
TDL_MAGIC == "6c47e6b71ea"
\* a message without '@extra'
NoExtra == ""

Ids == {ToString(i) : i \in 1..MaxInvoke}

WaitTdlibParameters == "authorizationStateWaitTdlibParameters"
WaitEncryptionKey == "authorizationStateWaitEncryptionKey"
WaitPhoneNumber == "authorizationStateWaitPhoneNumber"
WaitEmailAddress == "authorizationStateWaitEmailAddress"
WaitEmailCode == "authorizationStateWaitEmailCode"
WaitOtherDeviceConfirmation == "authorizationStateWaitOtherDeviceConfirmation"
WaitCode == "authorizationStateWaitCode"
WaitRegistration == "authorizationStateWaitRegistration"
WaitPassword == "authorizationStateWaitPassword"
Ready == "authorizationStateReady"
Closed == "authorizationStateClosed"

AuthStates ==
  { WaitTdlibParameters, WaitEncryptionKey, WaitPhoneNumber, WaitEmailAddress,
    WaitEmailCode, WaitOtherDeviceConfirmation, WaitCode, WaitRegistration,
    WaitPassword, Ready, Closed }

ConnectionStates ==
  { "connectionStateConnecting", "connectionStateUpdating", "connectionStateReady" }

ErrorMessages ==
  { "PHONE_CODE_EMPTY", "PHONE_CODE_INVALID", "PHONE_NUMBER_INVALID",
    "PASSWORD_HASH_INVALID", "ACCESS_TOKEN_INVALID", "SOME_OTHER_ERROR" }

VersionStrings == { "1.8.5", "1.8.6" }

\* A message: type is the '_' discriminant, extra the '@extra' field, arg the
\* payload the client reads (error.message, state._, authorization_state._,
\* value.value), name / vtype the name and value._ of an updateOption.
Msg(type, extra, arg, name, vtype) ==
  [type |-> type, extra |-> extra, arg |-> arg, name |-> name, vtype |-> vtype]

NoMsg == Msg("", NoExtra, "", "", "")

\* Server-initiated updates carry no '@extra'.
Updates ==
  { Msg("updateAuthorizationState", NoExtra, a, "", "") : a \in AuthStates }
  \cup { Msg("updateConnectionState", NoExtra, c, "", "") : c \in ConnectionStates }
  \cup { Msg("updateOption", NoExtra, v, "version", "optionValueString") : v \in VersionStrings }
  \cup { Msg("updateOption", NoExtra, "1.8.6", "version", "optionValueEmpty"),
         Msg("updateOption", NoExtra, "1.8.6", "my_id", "optionValueString"),
         Msg("updateNewMessage", NoExtra, "", "", "") }

\* Replies echo an '@extra': any uuid, or the sentinel.
Replies ==
  { Msg("ok", x, "", "", "") : x \in Ids \cup {TDL_MAGIC} }
  \cup { Msg("updateAuthorizationState", x, Closed, "", "") : x \in Ids \cup {TDL_MAGIC} }
  \cup { Msg("error", x, e, "", "") : x \in Ids \cup {TDL_MAGIC, NoExtra}, e \in ErrorMessages }

Messages == Updates \cup Replies

\* delete res['@extra']
WithoutExtra(m) == [m EXCEPT !.extra = NoExtra]

\* new TdlError(e, msg) / Error(msg): not a message of the engine
TdlError(text) == Msg("TdlError", NoExtra, text, "", "")

\* a request handed to tdlib.send
Request(type, extra, arg) == Msg(type, extra, arg, "", "")

\* a credential callback invocation; arg is the retry flag where there is one
Callback(name, retry) == Msg(name, NoExtra, retry, "", "")

(* ------------------------------ Version -------------------------------- *)
\* new Version(str): major.minor.patch
VersionParse(str) ==
  CASE str = "1.8.0" -> <<1, 8, 0>>
    [] str = "1.8.5" -> <<1, 8, 5>>
    [] str = "1.8.6" -> <<1, 8, 6>>
    [] OTHER -> <<0, 0, 0>>

VersionGte(a, b) ==
  \/ a[1] > b[1]
  \/ a[1] = b[1] /\ a[2] > b[2]
  \/ a[1] = b[1] /\ a[2] = b[2] /\ a[3] >= b[3]

TDLIB_1_8_6 == VersionParse("1.8.6")
TDLIB_DEFAULT == VersionParse("1.8.0")

(* ----------------------------- TdlDeferred ----------------------------- *)
\* A gate is [inner, done]: inner is the resolver stored by setDefer (0 when
\* _innerDefer is not set), done is _done.  resolve / reject return the new
\* gate and `fired`: the resolver they called (0 when they called none).
NewDeferred == [inner |-> 0, done |-> FALSE]

isPending(d) == ~d.done

isDeferSet(d) == d.inner # 0

\* a variant of setDefer that makes the gate ready to fire again
setDeferRearms(d, r) == [inner |-> r, done |-> FALSE]

setDefer(d, r) == [d EXCEPT !.inner = r]

\* a variant without the _done test
TdlResolveNoDoneCheck(d) ==
  IF d.inner = 0 THEN [d |-> d, fired |-> 0]
  ELSE [d |-> [d EXCEPT !.done = TRUE], fired |-> d.inner]

TdlResolve(d) ==
  IF d.done \/ d.inner = 0 THEN [d |-> d, fired |-> 0]
  ELSE [d |-> [d EXCEPT !.done = TRUE], fired |-> d.inner]

TdlReject(d) ==
  IF d.done \/ d.inner = 0 THEN [d |-> d, fired |-> 0]
  ELSE [d |-> [d EXCEPT !.done = TRUE], fired |-> d.inner]

(* ------------------------------ futures -------------------------------- *)
\* A future (JavaScript promise) is "pending", "resolved" or "rejected": it is
\* settled at most once, the first call of its resolver wins.  The value or
\* error it is settled with is observed in `out` by the step that settles it.

\* call the resolver of future i of P
SettleAt(P, i, st) ==
  IF P[i] # "pending" THEN P ELSE [P EXCEPT ![i] = st]

\* call resolver i of the futures P (i = 0: no resolver is called)
Settle(P, i, st) ==
  IF i = 0 THEN P ELSE SettleAt(P, i, st)

VARIABLES
  \* ---- Client fields
  options,          \* _options: skipOldUpdates, disableAuth, tdlibParameters._ set
  client,           \* _client: 0 = null, else the engine handle
  initialized,      \* _initialized
  paused,           \* _paused
  connectionState,  \* _connectionState._
  connectDefer,     \* _connectDefer
  loginDefer,       \* _loginDefer
  authNeeded,       \* _authNeeded
  loginDetails,     \* _loginDetails: "null", or its type "user" / "bot"
  version,          \* _version
  fetching,         \* keys of _fetching
  \* ---- futures handed to callers
  connectP,         \* futures returned by connect(), in call order
  loginP,           \* futures returned by login(), in call order
  closeP,           \* futures returned by close(), in call order
  invokeP,          \* futures returned by invoke(), by uuid ("unused" before the call)
  \* ---- emitter listeners registered by the client itself
  authListeners,    \* once('auth-needed') of login(): the login kinds, in order
  closeListeners,   \* once('destroy') of close(): indices into closeP
  \* ---- control
  uuids,            \* uuids drawn so far
  handles,          \* engine handles created so far (tdlib.create)
  loops,            \* receive loops started so far
  loopPc,           \* where _loop is suspended
  loopErr,          \* the error whose retry callback _loop is awaiting
  tasks,            \* detached _handleAuth runs that are suspended
  \* ---- history
  recording,        \* whether the observations of the steps are kept
  trace,            \* the observations kept, in order
  abandoned,        \* the requests outstanding when the handle was released
  \* ---- a stand-alone TdlDeferred
  gate,             \* the gate
  gateCalls,        \* the calls made on it: [op, r] (r: resolver attached at the call)
  gateFired         \* the resolver calls it made: [r, o]

vars ==
  << options, client, initialized, paused, connectionState, connectDefer,
     loginDefer, authNeeded, loginDetails, version, fetching, connectP, loginP,
     closeP, invokeP, authListeners, closeListeners, uuids, handles, loops,
     loopPc, loopErr, tasks, recording, trace, abandoned, gate, gateCalls,
     gateFired >>

sessionVars ==
  << options, client, initialized, paused, connectionState, connectDefer,
     loginDefer, authNeeded, loginDetails, version, fetching, connectP, loginP,
     closeP, invokeP, authListeners, closeListeners, uuids, handles, loops,
     loopPc, loopErr, tasks, recording, trace, abandoned >>

gateVars == << gate, gateCalls, gateFired >>

(* ------------------------- the session as a record --------------------- *)
\* The handlers below are functions from session to session, so that a
\* handler can call another one as the code does.
Cur ==
  [ options |-> options, client |-> client, initialized |-> initialized,
    paused |-> paused, connectionState |-> connectionState,
    connectDefer |-> connectDefer, loginDefer |-> loginDefer,
    authNeeded |-> authNeeded, loginDetails |-> loginDetails,
    version |-> version, fetching |-> fetching, connectP |-> connectP,
    loginP |-> loginP, closeP |-> closeP, invokeP |-> invokeP,
    authListeners |-> authListeners, closeListeners |-> closeListeners,
    uuids |-> uuids, handles |-> handles, loops |-> loops, loopPc |-> loopPc,
    loopErr |-> loopErr, tasks |-> tasks, out |-> <<>> ]

\* what the listeners and the futures of a caller show of a step
Watched == {"response", "update", "error", "resolve", "reject"}

\* the history after a step that observed `seen`
Recorded(seen) ==
  IF recording THEN trace \o SelectSeq(seen, LAMBDA e : e.ev \in Watched) ELSE trace

Becomes(s) ==
  /\ options' = s.options
  /\ client' = s.client
  /\ initialized' = s.initialized
  /\ paused' = s.paused
  /\ connectionState' = s.connectionState
  /\ connectDefer' = s.connectDefer
  /\ loginDefer' = s.loginDefer
  /\ authNeeded' = s.authNeeded
  /\ loginDetails' = s.loginDetails
  /\ version' = s.version
  /\ fetching' = s.fetching
  /\ connectP' = s.connectP
  /\ loginP' = s.loginP
  /\ closeP' = s.closeP
  /\ invokeP' = s.invokeP
  /\ authListeners' = s.authListeners
  /\ closeListeners' = s.closeListeners
  /\ uuids' = s.uuids
  /\ handles' = s.handles
  /\ loops' = s.loops
  /\ loopPc' = s.loopPc
  /\ loopErr' = s.loopErr
  /\ tasks' = s.tasks
  /\ Len(Recorded(s.out)) <= MaxTrace
  /\ trace' = Recorded(s.out)
  /\ abandoned' = IF recording /\ client # 0 /\ s.client = 0 THEN s.fetching ELSE abandoned
  /\ UNCHANGED << recording, gateVars >>

\* an observable thing the step did: ev is its kind, id the future it settles
\* (the uuid of an invoke, the call number of a connect / login), msg the payload
Event(ev, id, msg) == [ev |-> ev, id |-> id, msg |-> msg]

Observe(s, ev, id, msg) == [s EXCEPT !.out = Append(@, Event(ev, id, msg))]

(* ------------------------- gates of the session ------------------------ *)
\* the resolver the gate calls settles the future of that connect() / login()
GateSettles(s, ev, fired, msg) ==
  IF fired = 0 THEN s ELSE Observe(s, ev, ToString(fired), msg)

ConnectResolve(s) ==
  LET r == TdlResolve(s.connectDefer)
  IN [GateSettles(s, "connect.resolve", r.fired, NoMsg)
        EXCEPT !.connectDefer = r.d,
               !.connectP = Settle(@, r.fired, "resolved")]

ConnectReject(s, err) ==
  LET r == TdlReject(s.connectDefer)
  IN [GateSettles(s, "connect.reject", r.fired, err)
        EXCEPT !.connectDefer = r.d,
               !.connectP = Settle(@, r.fired, "rejected")]

LoginResolve(s) ==
  LET r == TdlResolve(s.loginDefer)
  IN [GateSettles(s, "login.resolve", r.fired, NoMsg)
        EXCEPT !.loginDefer = r.d,
               !.loginP = Settle(@, r.fired, "resolved")]

LoginReject(s, err) ==
  LET r == TdlReject(s.loginDefer)
  IN [GateSettles(s, "login.reject", r.fired, err)
        EXCEPT !.loginDefer = r.d,
               !.loginP = Settle(@, r.fired, "rejected")]

(* ------------------------------ emitter -------------------------------- *)
\* emit(event, value): the listeners of callers see the event; the listeners
\* the client registered itself run inside the emit.

\* emit('_resume'): wakes _waitResume
EmitResume(s) ==
  [s EXCEPT !.loopPc = IF @ = "waitResume" THEN "resumed" ELSE @]

\* emit('_login'): wakes every _waitLogin
EmitLogin(s) ==
  [s EXCEPT !.tasks =
     [i \in DOMAIN @ |-> IF @[i].pc = "waitLogin" THEN [@[i] EXCEPT !.pc = "run"] ELSE @[i]]]

\* emit('auth-needed'): every login() listener sets _loginDetails, in order
EmitAuthNeeded(s) ==
  LET s1 == Observe(s, "auth-needed", "", NoMsg)
  IN IF s1.authListeners = <<>> THEN s1
     ELSE [s1 EXCEPT !.loginDetails = s1.authListeners[Len(s1.authListeners)],
                     !.authListeners = <<>>]

\* emit('destroy'): every close() listener resolves its future
EmitDestroy(s) ==
  LET s1 == Observe(s, "destroy", "", NoMsg)
  IN [s1 EXCEPT !.closeP =
                  [i \in DOMAIN @ |-> IF i \in s1.closeListeners /\ @[i] = "pending"
                                      THEN "resolved" ELSE @[i]],
                !.closeListeners = {}]

(* --------------------------- Client methods ---------------------------- *)
\* a variant that publishes every error
CatchErrorAlwaysEmits(s, err) ==
  Observe(s, "error", "", err)

CatchError(s, err) ==
  IF ~isPending(s.connectDefer) /\ ~isPending(s.loginDefer)
  THEN Observe(s, "error", "", err)
  ELSE LET s1 == IF isPending(s.connectDefer) THEN ConnectReject(s, err) ELSE s
       IN IF isPending(s.loginDefer) THEN LoginReject(s1, err) ELSE s1

RejectConnectAndLogin(s, err) ==
  LoginReject(ConnectReject(s, err), err)

\* a variant of _send without the `!this._client` test
SendWithoutHandleTest(s, req) ==
  Observe(s, "send", "", req)

\* _send: tdlib.send is called only while the handle is set
Send(s, req) ==
  IF s.client = 0 THEN s ELSE Observe(s, "send", "", req)

SendTdl(s, type, arg) ==
  Send(s, Request(type, TDL_MAGIC, arg))

ResumeOf(s) ==
  IF s.paused THEN EmitResume([s EXCEPT !.paused = FALSE]) ELSE s

\* a variant of destroy() without the `!this._client` test
DestroyOfWithoutHandleTest(s) ==
  LET s1 == Observe(s, "tdlib.destroy", "", NoMsg)
      s2 == ResumeOf([s1 EXCEPT !.client = 0])
  IN EmitDestroy(s2)

DestroyOf(s) ==
  IF s.client = 0 THEN s
  ELSE LET s1 == Observe(s, "tdlib.destroy", "", NoMsg)
           s2 == ResumeOf([s1 EXCEPT !.client = 0])
       IN EmitDestroy(s2)

\* a variant without the _authNeeded test
AuthHasNeededPublishesEachTime(s) ==
  LET s1 == EmitAuthNeeded([s EXCEPT !.authNeeded = TRUE])
  IN [s |-> s1, ok |-> s1.loginDetails # "null"]

\* _authHasNeeded: ok is FALSE when one of its invariants throws
AuthHasNeeded(s) ==
  IF s.authNeeded
  THEN [s |-> s, ok |-> s.loginDetails # "null"]
  ELSE LET s1 == EmitAuthNeeded([s EXCEPT !.authNeeded = TRUE])
       IN [s |-> s1, ok |-> s1.loginDetails # "null"]

\* What a credential-requiring state asks for: the callback, its retry
\* argument ("" where it takes none) and the request that carries the answer.
Ask(cb, retry, req) == [cb |-> cb, retry |-> retry, req |-> req]

NoAsk == Ask("", "", "")

AuthAsk(st, type) ==
  CASE st = WaitPhoneNumber /\ type = "user" ->
         Ask("getPhoneNumber", "false", "setAuthenticationPhoneNumber")
    [] st = WaitPhoneNumber /\ type = "bot" ->
         Ask("getToken", "false", "checkAuthenticationBotToken")
    [] st = WaitEmailAddress /\ type = "user" ->
         Ask("getEmailAddress", "", "setAuthenticationEmailAddress")
    [] st = WaitEmailCode /\ type = "user" ->
         Ask("getEmailCode", "", "checkAuthenticationEmailCode")
    [] st = WaitCode /\ type = "user" ->
         Ask("getAuthCode", "false", "checkAuthenticationCode")
    [] st = WaitRegistration /\ type = "user" ->
         Ask("getName", "", "registerUser")
    [] st = WaitPassword /\ type = "user" ->
         Ask("getPassword", "false", "checkAuthenticationPassword")
    [] OTHER -> NoAsk

\* a variant that asks again as if for the first time
RetryAskAsFirstPrompt(type, message) ==
  CASE type = "user" /\ message \in {"PHONE_CODE_EMPTY", "PHONE_CODE_INVALID"} ->
         Ask("getAuthCode", "false", "checkAuthenticationCode")
    [] type = "user" /\ message = "PHONE_NUMBER_INVALID" ->
         Ask("getPhoneNumber", "false", "setAuthenticationPhoneNumber")
    [] type = "user" /\ message = "PASSWORD_HASH_INVALID" ->
         Ask("getPassword", "false", "checkAuthenticationPassword")
    [] type = "bot" /\ message = "ACCESS_TOKEN_INVALID" ->
         Ask("getToken", "false", "checkAuthenticationBotToken")
    [] OTHER -> NoAsk

\* _handleUserError / _handleBotError: the retry table
RetryAsk(type, message) ==
  CASE type = "user" /\ message \in {"PHONE_CODE_EMPTY", "PHONE_CODE_INVALID"} ->
         Ask("getAuthCode", "true", "checkAuthenticationCode")
    [] type = "user" /\ message = "PHONE_NUMBER_INVALID" ->
         Ask("getPhoneNumber", "true", "setAuthenticationPhoneNumber")
    [] type = "user" /\ message = "PASSWORD_HASH_INVALID" ->
         Ask("getPassword", "true", "checkAuthenticationPassword")
    [] type = "bot" /\ message = "ACCESS_TOKEN_INVALID" ->
         Ask("getToken", "true", "checkAuthenticationBotToken")
    [] OTHER -> NoAsk

CredentialStates ==
  { WaitPhoneNumber, WaitEmailAddress, WaitEmailCode, WaitOtherDeviceConfirmation,
    WaitCode, WaitRegistration, WaitPassword }

\* a variant that publishes the update only after `await this._waitLogin()`
AuthAfterLoginPublishesLate(s, st) ==
  LET s0 == Observe(s, "update", "", Msg("updateAuthorizationState", NoExtra, st, "", ""))
  IN IF st = Ready THEN [s |-> LoginResolve(s0), wait |-> FALSE]
     ELSE IF st \notin CredentialStates THEN [s |-> s0, wait |-> FALSE]
     ELSE LET n == AuthHasNeeded(s0)
              ask == AuthAsk(st, n.s.loginDetails)
          IN IF ~n.ok
             THEN [s |-> CatchError(n.s, TdlError("_authHasNeeded: loginDetails should be set")),
                   wait |-> FALSE]
             ELSE IF st = WaitOtherDeviceConfirmation
             THEN [s |-> IF n.s.loginDetails = "user"
                         THEN Observe(n.s, "call", "", Callback("confirmOnAnotherDevice", ""))
                         ELSE n.s,
                   wait |-> FALSE]
             ELSE IF ask = NoAsk THEN [s |-> n.s, wait |-> FALSE]
             ELSE [s |-> Observe(n.s, "call", "", Callback(ask.cb, ask.retry)),
                   wait |-> TRUE]

\* _handleAuth after `await this._waitLogin()`: the second switch, up to the
\* await of a credential callback.  wait says whether the run is now
\* suspended in such an await.
AuthAfterLogin(s, st) ==
  IF st = Ready THEN [s |-> LoginResolve(s), wait |-> FALSE]
  ELSE IF st \notin CredentialStates THEN [s |-> s, wait |-> FALSE]
  ELSE LET n == AuthHasNeeded(s)
           ask == AuthAsk(st, n.s.loginDetails)
       IN IF ~n.ok
          THEN [s |-> CatchError(n.s, TdlError("_authHasNeeded: loginDetails should be set")),
                wait |-> FALSE]
          ELSE IF st = WaitOtherDeviceConfirmation
          THEN [s |-> IF n.s.loginDetails = "user"
                      THEN Observe(n.s, "call", "", Callback("confirmOnAnotherDevice", ""))
                      ELSE n.s,
                wait |-> FALSE]
          ELSE IF ask = NoAsk THEN [s |-> n.s, wait |-> FALSE]
          ELSE [s |-> Observe(n.s, "call", "", Callback(ask.cb, ask.retry)),
                wait |-> TRUE]

Task(st, pc) == [st |-> st, pc |-> pc]

\* a variant without `await this._waitLogin()`
HandleAuthWithoutWaitLogin(s, st) ==
  CASE st = WaitTdlibParameters ->
         IF VersionGte(s.version, TDLIB_1_8_6)
         THEN IF s.options.paramsTagged
              THEN CatchError(s, TdlError("tdlibParameters must not contain the _ property"))
              ELSE ConnectResolve(SendTdl(s, "setTdlibParameters", "flat"))
         ELSE SendTdl(s, "setTdlibParameters", "nested")
    [] st = WaitEncryptionKey ->
         ConnectResolve(SendTdl(s, "checkDatabaseEncryptionKey", ""))
    [] st = Closed ->
         DestroyOf(RejectConnectAndLogin(s, TdlError("Received authorizationStateClosed")))
    [] OTHER ->
         LET s1 == IF st = Ready /\ ~s.authNeeded
                   THEN Observe(s, "auth-not-needed", "", NoMsg) ELSE s
             a == AuthAfterLogin(s1, st)
         IN IF a.wait
            THEN [a.s EXCEPT !.tasks = Append(@, Task(st, "callback"))]
            ELSE a.s

\* a variant that publishes `auth-not-needed` on every ready
HandleAuthAlwaysNotNeeded(s, st) ==
  CASE st = WaitTdlibParameters ->
         IF VersionGte(s.version, TDLIB_1_8_6)
         THEN IF s.options.paramsTagged
              THEN CatchError(s, TdlError("tdlibParameters must not contain the _ property"))
              ELSE ConnectResolve(SendTdl(s, "setTdlibParameters", "flat"))
         ELSE SendTdl(s, "setTdlibParameters", "nested")
    [] st = WaitEncryptionKey ->
         ConnectResolve(SendTdl(s, "checkDatabaseEncryptionKey", ""))
    [] st = Closed ->
         DestroyOf(RejectConnectAndLogin(s, TdlError("Received authorizationStateClosed")))
    [] OTHER ->
         LET s1 == IF st = Ready
                   THEN Observe(s, "auth-not-needed", "", NoMsg) ELSE s
         IN IF isDeferSet(s1.loginDefer)
            THEN LET a == AuthAfterLogin(s1, st)
                 IN IF a.wait
                    THEN [a.s EXCEPT !.tasks = Append(@, Task(st, "callback"))]
                    ELSE a.s
            ELSE [s1 EXCEPT !.tasks = Append(@, Task(st, "waitLogin"))]

\* a variant that resolves the connect gate on every setTdlibParameters
HandleAuthResolvesOnLegacyParameters(s, st) ==
  CASE st = WaitTdlibParameters ->
         IF VersionGte(s.version, TDLIB_1_8_6)
         THEN IF s.options.paramsTagged
              THEN CatchError(s, TdlError("tdlibParameters must not contain the _ property"))
              ELSE ConnectResolve(SendTdl(s, "setTdlibParameters", "flat"))
         ELSE ConnectResolve(SendTdl(s, "setTdlibParameters", "nested"))
    [] st = WaitEncryptionKey ->
         ConnectResolve(SendTdl(s, "checkDatabaseEncryptionKey", ""))
    [] st = Closed ->
         DestroyOf(RejectConnectAndLogin(s, TdlError("Received authorizationStateClosed")))
    [] OTHER ->
         LET s1 == IF st = Ready /\ ~s.authNeeded
                   THEN Observe(s, "auth-not-needed", "", NoMsg) ELSE s
         IN IF isDeferSet(s1.loginDefer)
            THEN LET a == AuthAfterLogin(s1, st)
                 IN IF a.wait
                    THEN [a.s EXCEPT !.tasks = Append(@, Task(st, "callback"))]
                    ELSE a.s
            ELSE [s1 EXCEPT !.tasks = Append(@, Task(st, "waitLogin"))]

\* _handleAuth up to its first suspension
HandleAuth(s, st) ==
  CASE st = WaitTdlibParameters ->
         IF VersionGte(s.version, TDLIB_1_8_6)
         THEN IF s.options.paramsTagged
              THEN CatchError(s, TdlError("tdlibParameters must not contain the _ property"))
              ELSE ConnectResolve(SendTdl(s, "setTdlibParameters", "flat"))
         ELSE SendTdl(s, "setTdlibParameters", "nested")
    [] st = WaitEncryptionKey ->
         ConnectResolve(SendTdl(s, "checkDatabaseEncryptionKey", ""))
    [] st = Closed ->
         DestroyOf(RejectConnectAndLogin(s, TdlError("Received authorizationStateClosed")))
    [] OTHER ->
         LET s1 == IF st = Ready /\ ~s.authNeeded
                   THEN Observe(s, "auth-not-needed", "", NoMsg) ELSE s
         IN IF isDeferSet(s1.loginDefer)
            THEN LET a == AuthAfterLogin(s1, st)
                 IN IF a.wait
                    THEN [a.s EXCEPT !.tasks = Append(@, Task(st, "callback"))]
                    ELSE a.s
            ELSE [s1 EXCEPT !.tasks = Append(@, Task(st, "waitLogin"))]

\* a variant that applies the backlog test to every kind of update
HandleUpdateSkipsEveryKind(s, update) ==
  IF s.options.skipOldUpdates /\ s.connectionState = "connectionStateUpdating"
  THEN s
  ELSE CASE update.type = "updateOption" ->
              LET s1 == Observe(s, "update", "", update)
              IN IF update.name = "version" /\ update.vtype = "optionValueString"
                 THEN [s1 EXCEPT !.version = VersionParse(update.arg)]
                 ELSE s1
         [] update.type = "updateConnectionState" ->
              Observe([s EXCEPT !.connectionState = update.arg], "update", "", update)
         [] update.type = "updateAuthorizationState" ->
              LET s1 == Observe(s, "update", "", update)
              IN IF ~s.options.disableAuth THEN HandleAuth(s1, update.arg) ELSE s1
         [] OTHER -> Observe(s, "update", "", update)

\* a variant that stores the version whatever the type of the option value
HandleUpdateStoresAnyValue(s, update) ==
  CASE update.type = "updateOption" ->
         LET s1 == Observe(s, "update", "", update)
         IN IF update.name = "version"
            THEN [s1 EXCEPT !.version = VersionParse(update.arg)]
            ELSE s1
    [] update.type = "updateConnectionState" ->
         Observe([s EXCEPT !.connectionState = update.arg], "update", "", update)
    [] update.type = "updateAuthorizationState" ->
         LET s1 == Observe(s, "update", "", update)
         IN IF ~s.options.disableAuth THEN HandleAuth(s1, update.arg) ELSE s1
    [] OTHER ->
         IF s.options.skipOldUpdates /\ s.connectionState = "connectionStateUpdating"
         THEN s
         ELSE Observe(s, "update", "", update)

HandleUpdate(s, update) ==
  CASE update.type = "updateOption" ->
         LET s1 == Observe(s, "update", "", update)
         IN IF update.name = "version" /\ update.vtype = "optionValueString"
            THEN [s1 EXCEPT !.version = VersionParse(update.arg)]
            ELSE s1
    [] update.type = "updateConnectionState" ->
         Observe([s EXCEPT !.connectionState = update.arg], "update", "", update)
    [] update.type = "updateAuthorizationState" ->
         LET s1 == Observe(s, "update", "", update)
         IN IF ~s.options.disableAuth THEN HandleAuth(s1, update.arg) ELSE s1
    [] OTHER ->
         IF s.options.skipOldUpdates /\ s.connectionState = "connectionStateUpdating"
         THEN s
         ELSE Observe(s, "update", "", update)

EmitErrWithoutExtra(s, error) ==
  CatchError(s, WithoutExtra(error))

\* a variant that clears the whole map where the code deletes one entry
HandleErrorClearsMap(s, error) ==
  LET id == error.extra
  IN IF id \in s.fetching
     THEN LET s1 == Observe(s, "reject", id, WithoutExtra(error))
          IN [s1 EXCEPT !.invokeP = SettleAt(@, id, "rejected"),
                        !.fetching = {}]
     ELSE IF id = TDL_MAGIC
     THEN IF s.loginDetails = "null" THEN EmitErrWithoutExtra(s, error)
          ELSE LET ask == RetryAsk(s.loginDetails, error.arg)
               IN IF ask = NoAsk THEN EmitErrWithoutExtra(s, error)
                  ELSE [Observe(s, "call", "", Callback(ask.cb, ask.retry))
                          EXCEPT !.loopPc = "awaitCallback", !.loopErr = error.arg]
     ELSE Observe(s, "error", "", error)

\* a variant that hands an uncorrelated error to _emitErrWithoutExtra
HandleErrorFunnelsUncorrelated(s, error) ==
  LET id == error.extra
  IN IF id \in s.fetching
     THEN LET s1 == Observe(s, "reject", id, WithoutExtra(error))
          IN [s1 EXCEPT !.invokeP = SettleAt(@, id, "rejected"),
                        !.fetching = @ \ {id}]
     ELSE IF id = TDL_MAGIC
     THEN IF s.loginDetails = "null" THEN EmitErrWithoutExtra(s, error)
          ELSE LET ask == RetryAsk(s.loginDetails, error.arg)
               IN IF ask = NoAsk THEN EmitErrWithoutExtra(s, error)
                  ELSE [Observe(s, "call", "", Callback(ask.cb, ask.retry))
                          EXCEPT !.loopPc = "awaitCallback", !.loopErr = error.arg]
     ELSE EmitErrWithoutExtra(s, error)

\* _handleError; a retry leaves _loop awaiting the callback
HandleError(s, error) ==
  LET id == error.extra
  IN IF id \in s.fetching
     THEN LET s1 == Observe(s, "reject", id, WithoutExtra(error))
          IN [s1 EXCEPT !.invokeP = SettleAt(@, id, "rejected"),
                        !.fetching = @ \ {id}]
     ELSE IF id = TDL_MAGIC
     THEN IF s.loginDetails = "null" THEN EmitErrWithoutExtra(s, error)
          ELSE LET ask == RetryAsk(s.loginDetails, error.arg)
               IN IF ask = NoAsk THEN EmitErrWithoutExtra(s, error)
                  ELSE [Observe(s, "call", "", Callback(ask.cb, ask.retry))
                          EXCEPT !.loopPc = "awaitCallback", !.loopErr = error.arg]
     ELSE Observe(s, "error", "", error)

\* a variant that goes on to the update handler after it settled the request
HandleResponseAlsoUpdates(s, res) ==
  LET s0 == Observe(s, "response", "", res)
      id == res.extra
  IN IF res.type = "error" THEN HandleError(s0, res)
     ELSE IF id \in s0.fetching
     THEN LET s1 == Observe(s0, "resolve", id, WithoutExtra(res))
          IN HandleUpdate([s1 EXCEPT !.invokeP = SettleAt(@, id, "resolved"),
                                     !.fetching = @ \ {id}],
                          WithoutExtra(res))
     ELSE IF id # TDL_MAGIC THEN HandleUpdate(s0, res)
     ELSE s0

\* a variant that leaves the settled request in the map
HandleResponseKeepsEntry(s, res) ==
  LET s0 == Observe(s, "response", "", res)
      id == res.extra
  IN IF res.type = "error" THEN HandleError(s0, res)
     ELSE IF id \in s0.fetching
     THEN LET s1 == Observe(s0, "resolve", id, WithoutExtra(res))
          IN [s1 EXCEPT !.invokeP = SettleAt(@, id, "resolved")]
     ELSE IF id # TDL_MAGIC THEN HandleUpdate(s0, res)
     ELSE s0

\* a variant without the sentinel test
HandleResponseUpdatesSentinel(s, res) ==
  LET s0 == Observe(s, "response", "", res)
      id == res.extra
  IN IF res.type = "error" THEN HandleError(s0, res)
     ELSE IF id \in s0.fetching
     THEN LET s1 == Observe(s0, "resolve", id, WithoutExtra(res))
          IN [s1 EXCEPT !.invokeP = SettleAt(@, id, "resolved"),
                        !.fetching = @ \ {id}]
     ELSE HandleUpdate(s0, res)

HandleResponse(s, res) ==
  LET s0 == Observe(s, "response", "", res)
      id == res.extra
  IN IF res.type = "error" THEN HandleError(s0, res)
     ELSE IF id \in s0.fetching
     THEN LET s1 == Observe(s0, "resolve", id, WithoutExtra(res))
          IN [s1 EXCEPT !.invokeP = SettleAt(@, id, "resolved"),
                        !.fetching = @ \ {id}]
     ELSE IF id # TDL_MAGIC THEN HandleUpdate(s0, res)
     ELSE s0

\* _receive up to its await: tdlib.receive is called only while the handle is
\* set, otherwise it returns null
Receive(s) ==
  IF s.client = 0 THEN s ELSE Observe(s, "tdlib.receive", "", NoMsg)

\* _loop from the top of an iteration to its first suspension
LoopAfterResume(s) ==
  IF s.client = 0 THEN [s EXCEPT !.loopPc = "done"]
  ELSE [Receive(s) EXCEPT !.loopPc = "receiving"]

LoopIteration(s) ==
  IF s.paused THEN [s EXCEPT !.loopPc = "waitResume"]
  ELSE LoopAfterResume(s)

\* _init
InitOf(s, created) ==
  IF ~created
  THEN CatchError(s, TdlError("Error while creating client"))
  ELSE LET s1 == Observe([s EXCEPT !.handles = @ + 1], "tdlib.create", "", NoMsg)
           s2 == [s1 EXCEPT !.client = s1.handles, !.initialized = TRUE]
           s3 == IF s2.options.disableAuth THEN ConnectResolve(s2) ELSE s2
       IN LoopIteration([s3 EXCEPT !.loops = @ + 1])

(* ------------------------- operations of callers ----------------------- *)
\* a variant of connect() without the _initialized test
ConnectOfWithoutInitializedTest(s, created) ==
  InitOf([s EXCEPT !.connectP = Append(@, "pending"),
                   !.connectDefer = setDefer(@, Len(s.connectP) + 1)],
         created)

\* connect(); created: whether tdlib.create() returns a handle or throws
ConnectOf(s, created) ==
  IF s.initialized
  THEN [Observe(s, "connect.reject", ToString(Len(s.connectP) + 1),
                IF s.client # 0
                THEN TdlError("The client is already initialized")
                ELSE TdlError("Cannot re-initialize a destroyed client"))
          EXCEPT !.connectP = Append(@, "rejected")]
  ELSE InitOf([s EXCEPT !.connectP = Append(@, "pending"),
                        !.connectDefer = setDefer(@, Len(s.connectP) + 1)],
              created)

\* a variant that does not subscribe getLoginDetails to `auth-needed`
LoginOfWithoutListener(s, kind) ==
  EmitLogin([s EXCEPT !.loginP = Append(@, "pending"),
                      !.loginDefer = setDefer(@, Len(s.loginP) + 1)])

\* login(getLoginDetails); kind: the type getLoginDetails() returns
LoginOf(s, kind) ==
  EmitLogin([s EXCEPT !.authListeners = Append(@, kind),
                      !.loginP = Append(@, "pending"),
                      !.loginDefer = setDefer(@, Len(s.loginP) + 1)])

\* uuidv4(): the next fresh uuid
Uuidv4(s) == ToString(s.uuids + 1)

InvokeOf(s) ==
  LET id == Uuidv4(s)
  IN Send([s EXCEPT !.uuids = @ + 1,
                    !.fetching = @ \cup {id},
                    !.invokeP[id] = "pending"],
          Request("request", id, ""))

PauseOf(s) ==
  IF ~s.paused THEN [s EXCEPT !.paused = TRUE] ELSE s

\* execute(request); res: what tdlib.execute returns (NoMsg for null).  It
\* returns null without calling the engine when the handle is not set.
ExecuteOf(s, res) ==
  IF s.client = 0 THEN Observe(s, "execute.return", "", NoMsg)
  ELSE Observe(Observe(s, "tdlib.execute", "", Request("execute", NoExtra, "")),
               "execute.return", "", res)

\* a variant of close() that resolves without waiting for `destroy`
CloseOfResolvesAtOnce(s) ==
  IF s.client = 0
  THEN [s EXCEPT !.closeP = Append(@, "resolved")]
  ELSE [SendTdl(s, "close", "") EXCEPT !.closeP = Append(@, "resolved")]

CloseOf(s) ==
  IF s.client = 0
  THEN [s EXCEPT !.closeP = Append(@, "resolved")]
  ELSE [SendTdl(s, "close", "")
          EXCEPT !.closeP = Append(@, "pending"),
                 !.closeListeners = @ \cup {Len(s.closeP) + 1}]

(* ---------------------------- the receive loop ------------------------- *)
\* tdlib.receive answers with the message m and _loop routes it; _loop then
\* awaits the handler
LoopReceiveOf(s, m) ==
  LET r == HandleResponse(s, m)
  IN [r EXCEPT !.loopPc = IF @ = "receiving" THEN "top" ELSE @]

\* a variant in which the exception ends _loop
LoopReceiveThrowsEndsLoop(s) ==
  [CatchError(s, TdlError("receive failed")) EXCEPT !.loopPc = "done"]

\* tdlib.receive throws: caught in _loop, the next iteration starts at once
LoopReceiveThrowsOf(s) ==
  LoopIteration(CatchError(s, TdlError("receive failed")))

\* the retry callback awaited by _handleUserError / _handleBotError answers
LoopCallbackReturnsOf(s) ==
  LET ask == RetryAsk(s.loginDetails, s.loopErr)
  IN [SendTdl(s, ask.req, "") EXCEPT !.loopPc = "top", !.loopErr = ""]

\* ... or throws: caught in _loop
LoopCallbackThrowsOf(s) ==
  [CatchError(s, TdlError("callback failed")) EXCEPT !.loopPc = "top", !.loopErr = ""]

(* ----------------------- detached _handleAuth runs --------------------- *)
Remove(seq, i) == SubSeq(seq, 1, i - 1) \o SubSeq(seq, i + 1, Len(seq))

\* the oldest run that login() woke
FirstRunnable(s) ==
  CHOOSE j \in DOMAIN s.tasks :
    /\ s.tasks[j].pc = "run"
    /\ \A k \in DOMAIN s.tasks : s.tasks[k].pc = "run" => j <= k

\* it continues after `await this._waitLogin()`
TaskRunOf(s) ==
  LET i == FirstRunnable(s)
      a == AuthAfterLogin(s, s.tasks[i].st)
  IN IF a.wait
     THEN [a.s EXCEPT !.tasks[i].pc = "callback"]
     ELSE [a.s EXCEPT !.tasks = Remove(@, i)]

\* the credential callback awaited by run i answers
TaskCallbackReturnsOf(s, i) ==
  LET ask == AuthAsk(s.tasks[i].st, s.loginDetails)
  IN [SendTdl(s, ask.req, "") EXCEPT !.tasks = Remove(@, i)]

\* ... or throws: caught by the .catch of _handleUpdate
TaskCallbackThrowsOf(s, i) ==
  [CatchError(s, TdlError("callback failed")) EXCEPT !.tasks = Remove(@, i)]

(* ------------------------------- Init ---------------------------------- *)
Options == [skipOldUpdates : BOOLEAN, disableAuth : BOOLEAN, paramsTagged : BOOLEAN]

\* a session constructed with the options opts
Start(opts, rec) ==
  /\ options = opts
  /\ client = 0
  /\ initialized = FALSE
  /\ paused = FALSE
  /\ connectionState = "connectionStateConnecting"
  /\ connectDefer = NewDeferred
  /\ loginDefer = NewDeferred
  /\ authNeeded = FALSE
  /\ loginDetails = "null"
  /\ version = TDLIB_DEFAULT
  /\ fetching = {}
  /\ connectP = <<>>
  /\ loginP = <<>>
  /\ closeP = <<>>
  /\ invokeP = [i \in Ids |-> "unused"]
  /\ authListeners = <<>>
  /\ closeListeners = {}
  /\ uuids = 0
  /\ handles = 0
  /\ loops = 0
  /\ loopPc = "none"
  /\ loopErr = ""
  /\ tasks = <<>>
  /\ recording = rec
  /\ trace = <<>>
  /\ abandoned = {}
  /\ gate = NewDeferred
  /\ gateCalls = <<>>
  /\ gateFired = <<>>

Init == \E opts \in Options : Start(opts, FALSE)

(* ------------------------------ actions -------------------------------- *)
Connect(created) ==
  /\ Len(connectP) < MaxConnect
  /\ initialized => created
  /\ Becomes(ConnectOf(Cur, created))

Login(kind) ==
  /\ Len(loginP) < MaxLogin
  /\ Becomes(LoginOf(Cur, kind))

Invoke ==
  /\ uuids < MaxInvoke
  /\ Becomes(InvokeOf(Cur))

Pause ==
  Becomes(PauseOf(Cur))

Resume ==
  Becomes(ResumeOf(Cur))

Destroy ==
  Becomes(DestroyOf(Cur))

Close ==
  /\ Len(closeP) < MaxClose
  /\ Becomes(CloseOf(Cur))

\* execute() is synchronous and changes no field of the session
Execute(res) ==
  Becomes(ExecuteOf(Cur, res))

\* A continuation made runnable by a caller's call runs before the engine's
\* next answer does (run to completion, then the microtask queue).
Runnable == \E i \in DOMAIN tasks : tasks[i].pc = "run"

\* the engine is about to answer the tdlib.receive of _loop
Receiving == loopPc = "receiving" /\ ~Runnable

\* the top of an iteration, after `await this._handleResponse(response)`
LoopTop ==
  /\ loopPc = "top"
  /\ Becomes(LoopIteration(Cur))

\* after `await this._waitResume()`
LoopResumed ==
  /\ loopPc = "resumed"
  /\ Becomes(LoopAfterResume(Cur))

LoopReceive(m) ==
  /\ Receiving
  /\ Len(LoopReceiveOf(Cur, m).tasks) <= MaxTasks
  /\ Becomes(LoopReceiveOf(Cur, m))

\* tdlib.receive answers null (timeout): the next iteration starts at once
LoopReceiveNull ==
  /\ Receiving
  /\ Becomes(LoopIteration(Cur))

LoopReceiveThrows ==
  /\ Receiving
  /\ Becomes(LoopReceiveThrowsOf(Cur))

LoopCallbackReturns ==
  /\ loopPc = "awaitCallback"
  /\ Becomes(LoopCallbackReturnsOf(Cur))

LoopCallbackThrows ==
  /\ loopPc = "awaitCallback"
  /\ Becomes(LoopCallbackThrowsOf(Cur))

TaskRun ==
  /\ Runnable
  /\ Becomes(TaskRunOf(Cur))

TaskCallbackReturns(i) ==
  /\ i \in DOMAIN tasks
  /\ tasks[i].pc = "callback"
  /\ Becomes(TaskCallbackReturnsOf(Cur, i))

TaskCallbackThrows(i) ==
  /\ i \in DOMAIN tasks
  /\ tasks[i].pc = "callback"
  /\ Becomes(TaskCallbackThrowsOf(Cur, i))

\* the whole session against an engine that may answer anything
Next ==
  \/ \E created \in BOOLEAN : Connect(created)
  \/ \E kind \in {"user", "bot"} : Login(kind)
  \/ Invoke
  \/ Pause
  \/ Resume
  \/ Destroy
  \/ Close
  \/ \E res \in {NoMsg, Msg("ok", NoExtra, "", "", "")} : Execute(res)
  \/ LoopTop
  \/ LoopResumed
  \/ \E m \in Messages : LoopReceive(m)
  \/ LoopReceiveNull
  \/ LoopReceiveThrows
  \/ LoopCallbackReturns
  \/ LoopCallbackThrows
  \/ TaskRun
  \/ \E i \in 1..MaxTasks : TaskCallbackReturns(i)
  \/ \E i \in 1..MaxTasks : TaskCallbackThrows(i)

Spec == Init /\ [][Next]_vars

(* --------------------- request correlation and routing ----------------- *)
\* The session against an engine that answers requests, reports errors and
\* sends updates; the credential dialogue is left to SpecAuth.
RouterMessages ==
  { m \in Updates :
      /\ m.type = "updateAuthorizationState" => m.arg \in {WaitTdlibParameters, Ready, Closed}
      /\ m.type = "updateOption" => m.name # "version"
      /\ m.type = "updateConnectionState" => m.arg # "connectionStateReady" }
  \cup { m \in Replies : m.type = "error" => m.arg = "SOME_OTHER_ERROR" }

InitRouter == Init /\ ~options.paramsTagged

NextRouter ==
  \/ \E created \in BOOLEAN : Connect(created)
  \/ Login("user")
  \/ Invoke
  \/ Destroy
  \/ LoopTop
  \/ \E m \in RouterMessages : LoopReceive(m)
  \/ LoopReceiveNull
  \/ TaskRun

SpecRouter == InitRouter /\ [][NextRouter]_vars

(* ----------------------------- the handshake --------------------------- *)
\* The session against an engine that reports its version, asks for the
\* tdlib parameters and the encryption key, and may close.
HandshakeMessages ==
  { m \in Updates :
      \/ m.type = "updateAuthorizationState"
           /\ m.arg \in {WaitTdlibParameters, WaitEncryptionKey, Ready, Closed}
      \/ m.type = "updateOption" /\ m.name = "version" }
  \cup { m \in Replies : m.extra = TDL_MAGIC /\ m.arg \in {"", "SOME_OTHER_ERROR"} }

InitHandshake == Init /\ ~options.skipOldUpdates

NextHandshake ==
  \/ \E created \in BOOLEAN : Connect(created)
  \/ Login("user")
  \/ Destroy
  \/ LoopTop
  \/ \E m \in HandshakeMessages : LoopReceive(m)
  \/ LoopReceiveNull
  \/ LoopReceiveThrows
  \/ TaskRun

SpecHandshake == InitHandshake /\ [][NextHandshake]_vars

(* ------------------------- the credential dialogue --------------------- *)
\* The session against an engine that walks through the authorization states
\* and answers the client's own requests, with callers that log in as a user
\* or as a bot and answer (or fail) the credential callbacks.
AuthMessages ==
  { m \in Updates : m.type = "updateAuthorizationState" }
  \cup { m \in Replies : m.extra = TDL_MAGIC /\ m.type # "updateAuthorizationState" }

InitAuth == Init /\ ~options.skipOldUpdates /\ ~options.paramsTagged

NextAuth ==
  \/ \E created \in BOOLEAN : Connect(created)
  \/ \E kind \in {"user", "bot"} : Login(kind)
  \/ LoopTop
  \/ \E m \in AuthMessages : LoopReceive(m)
  \/ LoopReceiveNull
  \/ LoopCallbackReturns
  \/ LoopCallbackThrows
  \/ TaskRun
  \/ \E i \in 1..MaxTasks : TaskCallbackReturns(i)
  \/ \E i \in 1..MaxTasks : TaskCallbackThrows(i)

SpecAuth == InitAuth /\ [][NextAuth]_vars

(* --------------------------- a recorded session ------------------------ *)
\* The session with the history of what its callers observed, against an
\* engine that sends updates, answers requests and asks for the phone number.
OrderMessages ==
  { Msg("updateNewMessage", NoExtra, "", "", ""),
    Msg("updateAuthorizationState", NoExtra, WaitPhoneNumber, "", ""),
    Msg("ok", "1", "", "", ""),
    Msg("error", "1", "SOME_OTHER_ERROR", "", ""),
    Msg("error", TDL_MAGIC, "PHONE_NUMBER_INVALID", "", "") }

InitOrder ==
  Start([skipOldUpdates |-> FALSE, disableAuth |-> FALSE, paramsTagged |-> FALSE], TRUE)

NextOrder ==
  \/ Connect(TRUE)
  \/ Login("user")
  \/ Invoke
  \/ LoopTop
  \/ \E m \in OrderMessages : LoopReceive(m)
  \/ LoopCallbackReturns
  \/ LoopCallbackThrows
  \/ TaskRun
  \/ \E i \in 1..MaxTasks : TaskCallbackReturns(i)
  \/ \E i \in 1..MaxTasks : TaskCallbackThrows(i)

SpecOrder == InitOrder /\ [][NextOrder]_vars

(* ------------------------- teardown of a session ----------------------- *)
\* The session with its history, against callers that invoke, pause, resume,
\* close and destroy, and an engine that answers requests and may close.
LifeMessages ==
  { Msg("updateNewMessage", NoExtra, "", "", ""),
    Msg("updateAuthorizationState", NoExtra, Closed, "", ""),
    Msg("ok", "1", "", "", ""),
    Msg("error", "1", "SOME_OTHER_ERROR", "", "") }

InitLife ==
  Start([skipOldUpdates |-> FALSE, disableAuth |-> FALSE, paramsTagged |-> FALSE], TRUE)

NextLife ==
  \/ Connect(TRUE)
  \/ Invoke
  \/ Pause
  \/ Resume
  \/ Destroy
  \/ Close
  \/ \E res \in {NoMsg, Msg("ok", NoExtra, "", "", "")} : Execute(res)
  \/ LoopTop
  \/ LoopResumed
  \/ \E m \in LifeMessages : LoopReceive(m)
  \/ LoopReceiveNull

SpecLife == InitLife /\ [][NextLife]_vars

(* ------------------------------ logging in ----------------------------- *)
\* The session of a caller who connects and calls login() before or after the
\* engine reports that it is ready.  The continuation of a _handleAuth run
\* that login() woke is a microtask and _loop continues after each handler:
\* both are always scheduled.
LoginMessages ==
  { Msg("updateOption", NoExtra, "1.8.6", "version", "optionValueString"),
    Msg("updateAuthorizationState", NoExtra, WaitTdlibParameters, "", ""),
    Msg("updateAuthorizationState", NoExtra, Ready, "", ""),
    Msg("updateConnectionState", NoExtra, "connectionStateReady", "", ""),
    Msg("updateNewMessage", NoExtra, "", "", "") }

InitLogin ==
  Start([skipOldUpdates |-> FALSE, disableAuth |-> FALSE, paramsTagged |-> FALSE], FALSE)

NextLogin ==
  \/ Connect(TRUE)
  \/ Login("user")
  \/ Invoke
  \/ LoopTop
  \/ \E m \in LoginMessages : LoopReceive(m)
  \/ LoopReceiveNull
  \/ TaskRun

SpecLogin ==
  InitLogin /\ [][NextLogin]_vars /\ WF_vars(TaskRun) /\ WF_vars(LoopTop)

(* ------------------------------ shutting down -------------------------- *)
\* The session of a caller who pauses, resumes, closes and destroys, against
\* an engine that answers every pull (a message, or null at the timeout) and
\* that reports authorizationStateClosed to a session that asked for it and
\* keeps pulling.  _loop continues after each of its awaits.
ShutdownMessages ==
  { Msg("updateNewMessage", NoExtra, "", "", ""),
    Msg("updateAuthorizationState", NoExtra, Closed, "", "") }

InitShutdown ==
  Start([skipOldUpdates |-> FALSE, disableAuth |-> FALSE, paramsTagged |-> FALSE], FALSE)

\* tdlib.receive returns
ReceiveReturns ==
  LoopReceiveNull \/ \E m \in ShutdownMessages : LoopReceive(m)

\* the engine answers the shutdown request of a close() that is still waiting
EngineCloses ==
  /\ \E i \in DOMAIN closeP : closeP[i] = "pending"
  /\ LoopReceive(Msg("updateAuthorizationState", NoExtra, Closed, "", ""))

NextShutdown ==
  \/ Connect(TRUE)
  \/ Pause
  \/ Resume
  \/ Destroy
  \/ Close
  \/ LoopTop
  \/ LoopResumed
  \/ ReceiveReturns

SpecShutdown ==
  /\ InitShutdown
  /\ [][NextShutdown]_vars
  /\ WF_vars(LoopTop)
  /\ WF_vars(LoopResumed)
  /\ WF_vars(ReceiveReturns)
  /\ SF_vars(EngineCloses)

(* ---------------------- the stand-alone TdlDeferred -------------------- *)
GateCall(op, r) == [op |-> op, r |-> r]

GateFire(r, o) == [r |-> r, o |-> o]

SetDeferCalls == Len(SelectSeq(gateCalls, LAMBDA c : c.op = "setDefer"))

GateSetDefer ==
  /\ Len(gateCalls) < MaxGateOps
  /\ SetDeferCalls < MaxDefers
  /\ gate' = setDefer(gate, SetDeferCalls + 1)
  /\ gateCalls' = Append(gateCalls, GateCall("setDefer", SetDeferCalls + 1))
  /\ UNCHANGED << gateFired, sessionVars >>

GateResolve ==
  /\ Len(gateCalls) < MaxGateOps
  /\ LET r == TdlResolve(gate)
     IN /\ gate' = r.d
        /\ gateFired' = IF r.fired = 0 THEN gateFired
                        ELSE Append(gateFired, GateFire(r.fired, "resolve"))
  /\ gateCalls' = Append(gateCalls, GateCall("resolve", gate.inner))
  /\ UNCHANGED sessionVars

GateReject ==
  /\ Len(gateCalls) < MaxGateOps
  /\ LET r == TdlReject(gate)
     IN /\ gate' = r.d
        /\ gateFired' = IF r.fired = 0 THEN gateFired
                        ELSE Append(gateFired, GateFire(r.fired, "reject"))
  /\ gateCalls' = Append(gateCalls, GateCall("reject", gate.inner))
  /\ UNCHANGED sessionVars

NextGate == GateSetDefer \/ GateResolve \/ GateReject

InitGate ==
  Start([skipOldUpdates |-> FALSE, disableAuth |-> FALSE, paramsTagged |-> FALSE], FALSE)

SpecGate == InitGate /\ [][NextGate]_vars

(* ================================ claims =============================== *)
\* the observations of the kinds K among `seen`, in order
Kinds(seen, K) == SelectSeq(seen, LAMBDA e : e.ev \in K)

\* the session after _loop has routed the message m the engine answers with
Routed(m) == LoopReceiveOf(Cur, m)

Settled == {"resolved", "rejected"}

(* ---- C1 *)
\* C1: when two distinct correlation ids a and b both have a pending invoke
\* request, routing a response or an error that carries a settles the request
\* under a and only that one: b stays registered, its future stays pending,
\* and no future other than a's is resolved or rejected by the step.
C1_RoutingSettlesOnlyItsRequest ==
  \A a \in Ids, b \in Ids, m \in Messages :
    (Receiving /\ a # b /\ a \in fetching /\ b \in fetching /\ m.extra = a) =>
      LET r == Routed(m)
      IN /\ r.invokeP[a] \in Settled
         /\ r.fetching = fetching \ {a}
         /\ r.invokeP[b] = "pending"
         /\ \A k \in DOMAIN r.out :
              r.out[k].ev \in {"resolve", "reject"} => r.out[k].id = a

\* two requests are pending and an error for the first one is routed
C1_Witness ==
  /\ Receiving
  /\ fetching = {"1", "2"}
  /\ LET r == Routed(Msg("error", "1", "SOME_OTHER_ERROR", "", ""))
     IN r.invokeP["1"] = "rejected" /\ r.invokeP["2"] = "pending" /\ r.fetching = {"2"}

(* ---- C2 *)
\* C2: a received message whose correlation field matches a pending request
\* settles exactly that request in the routing step (resolved unless the
\* message is an error, then rejected) with the message minus its correlation
\* field, removes the entry from the pending map, publishes nothing on
\* `update` or `error`, and leaves the connect gate and the login gate (and
\* the futures of connect() and login()) as they were.
C2_MatchingMessageSettlesExactlyThatRequest ==
  \A m \in Messages :
    (Receiving /\ m.extra \in fetching) =>
      LET r == Routed(m)
          isErr == m.type = "error"
      IN /\ Kinds(r.out, {"resolve", "reject"})
              = << Event(IF isErr THEN "reject" ELSE "resolve", m.extra, WithoutExtra(m)) >>
         /\ r.invokeP = [invokeP EXCEPT ![m.extra] = IF isErr THEN "rejected" ELSE "resolved"]
         /\ r.fetching = fetching \ {m.extra}
         /\ Kinds(r.out, {"update", "error"}) = <<>>
         /\ r.connectDefer = connectDefer /\ r.loginDefer = loginDefer
         /\ r.connectP = connectP /\ r.loginP = loginP

\* both gates have a resolver and are pending, and the answer to a pending
\* request is an authorization-state object
C2_Witness ==
  /\ Receiving
  /\ "1" \in fetching
  /\ isDeferSet(connectDefer) /\ isPending(connectDefer)
  /\ isDeferSet(loginDefer) /\ isPending(loginDefer)
  /\ Routed(Msg("updateAuthorizationState", "1", Closed, "", "")).invokeP["1"] = "resolved"

(* ---- C3 *)
\* C3: once a message with correlation id x has settled the request, a later
\* message that carries x settles no future (the invoke future keeps its first
\* outcome); a non-error message is handled exactly as the update handler
\* handles it, an error is published on `error` as an uncorrelated error, with
\* nothing else changed.
C3_SecondMessageSettlesNothing ==
  \A x \in Ids, m \in Messages :
    (Receiving /\ invokeP[x] \in Settled /\ m.extra = x) =>
      LET r == Routed(m)
          s0 == Observe(Cur, "response", "", m)
      IN /\ r.invokeP = invokeP
         /\ Kinds(r.out, {"resolve", "reject"}) = <<>>
         /\ r = [(IF m.type = "error" THEN Observe(s0, "error", "", m)
                                      ELSE HandleUpdate(s0, m))
                   EXCEPT !.loopPc = IF @ = "receiving" THEN "top" ELSE @]

\* request 1 was resolved; a second answer to it is published as an update
C3_Witness ==
  /\ Receiving
  /\ invokeP["1"] = "resolved"
  /\ LET m == Msg("ok", "1", "", "", "")
     IN Kinds(Routed(m).out, {"update", "resolve"}) = << Event("update", "", m) >>

(* ---- C4 *)
\* the calls of resolve / reject made on the stand-alone gate while a resolver
\* was attached
SettlingCalls ==
  { i \in DOMAIN gateCalls : gateCalls[i].op \in {"resolve", "reject"} /\ gateCalls[i].r # 0 }

FirstOf(S) == CHOOSE i \in S : \A j \in S : i <= j

\* C4: over any sequence of setDefer / resolve / reject calls, a gate with an
\* attached resolver calls a resolver exactly once: at the first resolve or
\* reject made while a resolver is attached, on that resolver and with the
\* outcome of that call; every later resolve or reject calls nothing.
C4_GateFiresOnceWithFirstOutcome ==
  IF SettlingCalls = {}
  THEN gateFired = <<>>
  ELSE LET c == gateCalls[FirstOf(SettlingCalls)]
       IN gateFired = << GateFire(c.r, c.op) >>

\* resolve then reject then resolve on a gate with a resolver: one resolution
C4_Witness ==
  /\ gateCalls = << GateCall("setDefer", 1), GateCall("resolve", 1),
                    GateCall("reject", 1), GateCall("resolve", 1) >>
  /\ gateFired = << GateFire(1, "resolve") >>

(* ---- C5 *)
\* the resolve / reject calls made on the stand-alone gate
OutcomeCalls == { i \in DOMAIN gateCalls : gateCalls[i].op \in {"resolve", "reject"} }

\* the setDefer calls made after call i
LaterSetDefers(i) == { j \in DOMAIN gateCalls : j > i /\ gateCalls[j].op = "setDefer" }

\* C5 (as the specification states it): when the first resolve or reject is
\* made while no resolver is attached, its outcome is held; the first resolver
\* attached afterwards is called, once, with that outcome, and no other
\* resolver call is ever made.
C5_OutcomeHeldUntilResolverAttached ==
  (OutcomeCalls # {} /\ gateCalls[FirstOf(OutcomeCalls)].r = 0
     /\ LaterSetDefers(FirstOf(OutcomeCalls)) # {}) =>
    LET i == FirstOf(OutcomeCalls)
        j == FirstOf(LaterSetDefers(i))
    IN gateFired = << GateFire(gateCalls[j].r, gateCalls[i].op) >>

(* ---- C6 *)
PrivilegedUpdates == {"updateOption", "updateConnectionState", "updateAuthorizationState"}

\* C6: in every state a sequence of routed messages leads to, a message that
\* reaches the update handler (not an error, matching no pending request, not
\* tagged with the sentinel) is published exactly once on `update` when it is
\* of a privileged kind (option, connection state, authorization state); one
\* of any other kind is published exactly once, except that it is not
\* published at all if and only if skipOldUpdates is set and the stored
\* connection state before the step is "updating".
C6_PrivilegedAlwaysOthersUnlessBacklog ==
  \A m \in Messages :
    (Receiving /\ m.type # "error" /\ m.extra \notin fetching /\ m.extra # TDL_MAGIC) =>
      LET suppressed == /\ m.type \notin PrivilegedUpdates
                        /\ options.skipOldUpdates
                        /\ connectionState = "connectionStateUpdating"
      IN Kinds(Routed(m).out, {"update"})
           = IF suppressed THEN <<>> ELSE << Event("update", "", m) >>

\* skipOldUpdates is set and the engine is replaying its backlog: a new
\* message is dropped, an option is published
C6_Witness ==
  /\ Receiving
  /\ options.skipOldUpdates
  /\ connectionState = "connectionStateUpdating"
  /\ Kinds(Routed(Msg("updateNewMessage", NoExtra, "", "", "")).out, {"update"}) = <<>>
  /\ Len(Kinds(Routed(Msg("updateOption", NoExtra, "1.8.6", "my_id", "optionValueString")).out,
               {"update"})) = 1

(* ---- C7 *)
WaitParametersUpdate == Msg("updateAuthorizationState", NoExtra, WaitTdlibParameters, "", "")

WaitKeyUpdate == Msg("updateAuthorizationState", NoExtra, WaitEncryptionKey, "", "")

\* the connect gate is resolved: the future of the connect() that attached
\* its resolver is resolved if it was still pending
ConnectGateResolved(r) ==
  /\ r.connectDefer = [connectDefer EXCEPT !.done = TRUE]
  /\ r.connectP = SettleAt(connectP, connectDefer.inner, "resolved")
  /\ Kinds(r.out, {"connect.resolve"})
       = << Event("connect.resolve", ToString(connectDefer.inner), NoMsg) >>

\* the session handles authentication with parameters the code accepts
Handshaking ==
  /\ Receiving
  /\ client # 0
  /\ ~options.disableAuth
  /\ ~options.paramsTagged

\* C7 (as the specification states it): after connect(), routing the
\* authorization state wait-tdlib-parameters sends exactly one sentinel-tagged
\* setTdlibParameters request and, in that step, resolves the future
\* connect() returned.
C7_ParametersSentAndConnectResolved ==
  (Handshaking /\ isDeferSet(connectDefer) /\ isPending(connectDefer)) =>
    LET r == Routed(WaitParametersUpdate)
    IN /\ Len(Kinds(r.out, {"send"})) = 1
       /\ Kinds(r.out, {"send"})[1].msg.type = "setTdlibParameters"
       /\ Kinds(r.out, {"send"})[1].msg.extra = TDL_MAGIC
       /\ r.connectP[connectDefer.inner] = "resolved"

\* C7 (amended): after connect(), routing wait-tdlib-parameters sends exactly
\* one sentinel-tagged setTdlibParameters request.  That step resolves the
\* pending connect() future only when the stored engine version is at least
\* 1.8.6; with an older stored version (the default 1.8.0 included) it leaves
\* the connect gate and the connect() future untouched, and it is the routing
\* of wait-encryption-key that sends checkDatabaseEncryptionKey and resolves
\* them.
C7_ParametersSentConnectResolvedByVersion ==
  (Handshaking /\ isDeferSet(connectDefer) /\ isPending(connectDefer)) =>
    LET r == Routed(WaitParametersUpdate)
        k == Routed(WaitKeyUpdate)
    IN /\ Kinds(r.out, {"send"})
            = << Event("send", "",
                       Request("setTdlibParameters", TDL_MAGIC,
                               IF VersionGte(version, TDLIB_1_8_6) THEN "flat" ELSE "nested")) >>
       /\ IF VersionGte(version, TDLIB_1_8_6)
          THEN ConnectGateResolved(r)
          ELSE /\ r.connectDefer = connectDefer
               /\ r.connectP = connectP
               /\ Kinds(r.out, {"connect.resolve"}) = <<>>
       /\ Kinds(k.out, {"send"})
            = << Event("send", "", Request("checkDatabaseEncryptionKey", TDL_MAGIC, "")) >>
       /\ ConnectGateResolved(k)

\* the engine reported version 1.8.6 and connect() is pending: the step
\* that sends the parameters resolves it
C7_Witness ==
  /\ Handshaking
  /\ version = TDLIB_1_8_6
  /\ connectP = << "pending" >>
  /\ Routed(WaitParametersUpdate).connectP = << "resolved" >>

(* ---- C8 *)
\* the retry table: login kind, error message, callback, request
RetryTable ==
  { << "user", "PHONE_CODE_EMPTY", "getAuthCode", "checkAuthenticationCode" >>,
    << "user", "PHONE_CODE_INVALID", "getAuthCode", "checkAuthenticationCode" >>,
    << "user", "PHONE_NUMBER_INVALID", "getPhoneNumber", "setAuthenticationPhoneNumber" >>,
    << "user", "PASSWORD_HASH_INVALID", "getPassword", "checkAuthenticationPassword" >>,
    << "bot", "ACCESS_TOKEN_INVALID", "getToken", "checkAuthenticationBotToken" >> }

RetryRow(kind, message) == CHOOSE row \in RetryTable : row[1] = kind /\ row[2] = message

InRetryTable(kind, message) == \E row \in RetryTable : row[1] = kind /\ row[2] = message

\* a sentinel-tagged error
SentinelErrors == { m \in Messages : m.type = "error" /\ m.extra = TDL_MAGIC }

\* C8: once the login details are stored, routing a sentinel-tagged error whose
\* message is in the retry table of the login kind invokes the callback of
\* that row exactly once, with retry flag true, and publishes nothing on
\* `error` and sends nothing before the callback answers; when the callback
\* answers (the engine handle still held) exactly one sentinel-tagged request
\* of that row is sent, with no further callback and nothing on `error`.
C8_RetryAsksAgainAndResends ==
  /\ \A m \in SentinelErrors :
       (Receiving /\ loginDetails # "null" /\ InRetryTable(loginDetails, m.arg)) =>
         LET r == Routed(m)
         IN /\ Kinds(r.out, {"call"})
                 = << Event("call", "", Callback(RetryRow(loginDetails, m.arg)[3], "true")) >>
            /\ Kinds(r.out, {"error", "send"}) = <<>>
            /\ r.loopPc = "awaitCallback"
            /\ r.loopErr = m.arg
  /\ (loopPc = "awaitCallback" /\ client # 0) =>
       /\ loginDetails # "null" /\ InRetryTable(loginDetails, loopErr)
       /\ LET r == LoopCallbackReturnsOf(Cur)
          IN /\ Kinds(r.out, {"send"})
                  = << Event("send", "",
                             Request(RetryRow(loginDetails, loopErr)[4], TDL_MAGIC, "")) >>
             /\ Kinds(r.out, {"call", "error"}) = <<>>

\* the phone number was refused: getPhoneNumber(true) is awaited and its
\* answer is sent
C8_Witness ==
  /\ loopPc = "awaitCallback"
  /\ loopErr = "PHONE_NUMBER_INVALID"
  /\ loginDetails = "user"
  /\ Len(Kinds(LoopCallbackReturnsOf(Cur).out, {"send"})) = 1

(* ---- C9 *)
\* a sentinel-tagged error the retry table of the session has no row for
NotRetried(m) ==
  /\ m \in SentinelErrors
  /\ loginDetails = "null" \/ ~InRetryTable(loginDetails, m.arg)

GateRejections(e) ==
  (IF isPending(connectDefer) /\ isDeferSet(connectDefer)
   THEN << Event("connect.reject", ToString(connectDefer.inner), e) >> ELSE <<>>)
  \o (IF isPending(loginDefer) /\ isDeferSet(loginDefer)
      THEN << Event("login.reject", ToString(loginDefer.inner), e) >> ELSE <<>>)

IsEffect(e) ==
  \/ e.ev \in {"update", "resolve", "reject"}
  \/ e.ev = "error" /\ e.msg.type = "error"

\* the arrival (publication on `response`) that precedes position k most closely
LastArrival(k) ==
  CHOOSE j \in 0..(k - 1) :
    /\ j # 0 => trace[j].ev = "response"
    /\ \A i \in (j + 1)..(k - 1) : trace[i].ev # "response"

\* C10: in the history of what callers observe, every effect of routing a
\* message (publication on `update` or `error`, settlement of an invoke
\* future) belongs to the message that arrived last: the effects of m1 all
\* occur before m2 arrives, hence before the effects of m2.  In particular
\* an update that arrived before the response to an invoke is published
\* before that invoke future is resolved.
C10_EffectsInArrivalOrder ==
  \A k \in DOMAIN trace :
    IsEffect(trace[k]) =>
      /\ LastArrival(k) # 0
      /\ WithoutExtra(trace[LastArrival(k)].msg) = WithoutExtra(trace[k].msg)

\* an update arrives, then the response to the pending invoke: the update is
\* published before the future is resolved
C10_Witness ==
  LET u == Msg("updateNewMessage", NoExtra, "", "", "")
      a == Msg("ok", "1", "", "", "")
  IN trace = << Event("response", "", u), Event("update", "", u),
                Event("response", "", a), Event("resolve", "1", WithoutExtra(a)) >>

(* ---- C11 *)
\* C11 (as the specification states it): destroy() on a live session with
\* outstanding invoke requests publishes `destroy` and settles none of them,
\* and a request that was outstanding when the handle was released is never
\* resolved and never rejected afterwards.
C11_DestroyAbandonsOutstandingRequests ==
  /\ (client # 0 /\ fetching # {}) =>
       LET d == DestroyOf(Cur)
       IN /\ Kinds(d.out, {"destroy"}) = << Event("destroy", "", NoMsg) >>
          /\ d.invokeP = invokeP
  /\ \A id \in abandoned : invokeP[id] = "pending"

(* ---- C12 *)
\* the session after one more connect(), whose tdlib.create would succeed
\* or not
Connected(created) == ConnectOf(Cur, created)

\* C12 (as the specification states it): every connect() after the first one
\* on an instance is rejected, and so is connect() after the session was
\* destroyed; neither creates an engine handle.
C12_OnlyFirstConnectAccepted ==
  /\ \A i \in DOMAIN connectP : i > 1 => connectP[i] = "rejected"
  /\ connectP # <<>> =>
       \A created \in BOOLEAN :
         /\ Connected(created).connectP = Append(connectP, "rejected")
         /\ Connected(created).handles = handles
         /\ Kinds(Connected(created).out, {"tdlib.create"}) = <<>>

(* ---- C13 *)
ClosedUpdate == Msg("updateAuthorizationState", NoExtra, Closed, "", "")

ClosedError == TdlError("Received authorizationStateClosed")

\* C13 (as the specification states it): when the authorization state closed
\* is routed on a live session, every connect() and login() future that is
\* still unsettled is rejected with the terminal error, and then the session
\* is torn down: the engine handle is released and `destroy` published, after
\* the rejections.  The teardown is irreversible: a session that was torn
\* down is not given a handle by a later connect().
C13_ClosedRejectsThenTearsDown ==
  /\ (Receiving /\ client # 0 /\ ~options.disableAuth) =>
       LET r == Routed(ClosedUpdate)
           seen == Kinds(r.out, {"connect.reject", "login.reject", "tdlib.destroy", "destroy"})
       IN /\ \A i \in DOMAIN connectP : connectP[i] = "pending" => r.connectP[i] = "rejected"
          /\ \A i \in DOMAIN loginP : loginP[i] = "pending" => r.loginP[i] = "rejected"
          /\ \A k \in DOMAIN seen :
               seen[k].ev \in {"connect.reject", "login.reject"} => seen[k].msg = ClosedError
          /\ r.client = 0
          /\ Len(seen) >= 2
          /\ seen[Len(seen) - 1].ev = "tdlib.destroy"
          /\ seen[Len(seen)].ev = "destroy"
  /\ (initialized /\ client = 0) =>
       \A created \in BOOLEAN :
         Connected(created).client = 0 /\ Connected(created).handles = handles

(* ---------------------------------------------------------------- C14 *)
\* how many times a step published `auth-needed`
AuthNeededCount(r) == Len(Kinds(r.out, {"auth-needed"}))

\* a step that dispatches no credential-requiring state publishes nothing and
\* leaves _authNeeded alone
Silent(r) == AuthNeededCount(r) = 0 /\ r.authNeeded = authNeeded

\* the routed message makes _handleAuth dispatch a credential-requiring state
\* at once (login() was called before)
DispatchedOnArrival(m) ==
  /\ m.type = "updateAuthorizationState"
  /\ m.extra \notin fetching
  /\ m.arg \in CredentialStates
  /\ ~options.disableAuth
  /\ isDeferSet(loginDefer)

\* C14: `auth-needed` is published at most once per session, namely by the
\* first step that dispatches a credential-requiring authorization state: a
\* step publishes it exactly once when it dispatches such a state and
\* _authNeeded is still false, and then sets _authNeeded; every other step
\* (a later credential-requiring state, any other message, connect(), login(),
\* a callback answering) publishes none and never clears _authNeeded.
C14_AuthNeededPublishedOnceAtFirstDispatch ==
  /\ Receiving =>
       \A m \in AuthMessages :
         LET r == Routed(m)
         IN IF DispatchedOnArrival(m) /\ ~authNeeded
            THEN AuthNeededCount(r) = 1 /\ r.authNeeded
            ELSE Silent(r)
  /\ Runnable =>
       LET r == TaskRunOf(Cur)
       IN IF tasks[FirstRunnable(Cur)].st \in CredentialStates /\ ~authNeeded
          THEN AuthNeededCount(r) = 1 /\ r.authNeeded
          ELSE Silent(r)
  /\ \A created \in BOOLEAN : Silent(ConnectOf(Cur, created))
  /\ \A kind \in {"user", "bot"} : Silent(LoginOf(Cur, kind))
  /\ Receiving => Silent(LoopIteration(Cur))
  /\ loopPc = "top" => Silent(LoopIteration(Cur))
  /\ loopPc = "awaitCallback" =>
       Silent(LoopCallbackReturnsOf(Cur)) /\ Silent(LoopCallbackThrowsOf(Cur))
  /\ \A i \in DOMAIN tasks :
       tasks[i].pc = "callback" =>
         Silent(TaskCallbackReturnsOf(Cur, i)) /\ Silent(TaskCallbackThrowsOf(Cur, i))

\* `auth-needed` was published and a further credential-requiring state is
\* about to be dispatched
C14_Witness ==
  /\ authNeeded
  /\ Receiving
  /\ client # 0
  /\ \E m \in AuthMessages : DispatchedOnArrival(m) /\ m.arg = WaitPassword

(* ---------------------------------------------------------------- C15 *)
\* C15: whenever _handleAuth dispatches a credential-requiring state, the
\* LoginDetails are set when _authHasNeeded returns, whether login() was called
\* before the state arrived (dispatch on arrival) or after it (dispatch in the
\* run that login() woke): neither invariant of _authHasNeeded fails
\* (getLoginDetails itself does not throw).
C15_LoginDetailsSetWhenDispatched ==
  /\ Receiving =>
       \A m \in AuthMessages :
         DispatchedOnArrival(m) =>
           /\ AuthHasNeeded(Cur).ok
           /\ Routed(m).loginDetails \in {"user", "bot"}
  /\ Runnable =>
       (tasks[FirstRunnable(Cur)].st \in CredentialStates =>
          /\ AuthHasNeeded(Cur).ok
          /\ TaskRunOf(Cur).loginDetails \in {"user", "bot"})
  /\ authNeeded => loginDetails \in {"user", "bot"}

\* a credential-requiring state arrived before login(); login() was then
\* called and the run it woke is about to dispatch the state, with the
\* LoginDetails not yet asked for
C15_Witness ==
  /\ Runnable
  /\ tasks[FirstRunnable(Cur)].st \in CredentialStates
  /\ ~authNeeded
  /\ loginDetails = "null"

(* ---------------------------------------------------------------- C16 *)
\* an error message that answers no pending request and is not sentinel-tagged
Uncorrelated(m) ==
  m.type = "error" /\ m.extra \notin fetching /\ m.extra # TDL_MAGIC

\* C16: routing an error whose correlation field matches no pending request
\* and is not the sentinel publishes it exactly once on `error`, as received,
\* and settles nothing: no invoke request, neither the connect gate nor the
\* login gate, no connect() or login() future.
C16_UncorrelatedErrorPublishedOnly ==
  Receiving =>
    \A m \in RouterMessages :
      Uncorrelated(m) =>
        LET r == Routed(m)
        IN /\ Kinds(r.out, {"error"}) = << Event("error", "", m) >>
           /\ \A k \in DOMAIN r.out : r.out[k].ev \in {"response", "error"}
           /\ r.invokeP = invokeP
           /\ r.fetching = fetching
           /\ r.connectDefer = connectDefer
           /\ r.loginDefer = loginDefer
           /\ r.connectP = connectP
           /\ r.loginP = loginP

\* an error tagged with an id that is not pending is about to arrive while a
\* request and the connect() future are pending
C16_Witness ==
  /\ Receiving
  /\ client # 0
  /\ fetching # {}
  /\ \E i \in DOMAIN connectP : connectP[i] = "pending"
  /\ \E m \in RouterMessages : Uncorrelated(m) /\ m.extra \in Ids

(* ---------------------------------------------------------------- C17 *)
\* the failure _loop hands to _catchError when tdlib.receive throws
ReceiveError == TdlError("receive failed")

\* the connect() / login() futures a step rejected
RejectedBy(r) ==
  { << "connect", i >> : i \in { j \in DOMAIN connectP :
                                   connectP[j] = "pending" /\ r.connectP[j] = "rejected" } }
  \cup { << "login", i >> : i \in { j \in DOMAIN loginP :
                                     loginP[j] = "pending" /\ r.loginP[j] = "rejected" } }

SomeFutureUnsettled ==
  \/ \E i \in DOMAIN connectP : connectP[i] = "pending"
  \/ \E i \in DOMAIN loginP : loginP[i] = "pending"

\* C17 (as the specification states it): a failure handed to the general error
\* path has exactly one observable outcome: while a connect() or login() future
\* is unsettled it rejects such a future and nothing is published on `error`;
\* otherwise it is published once on `error`.  No failure is dropped.
C17_FailureRejectsOrIsPublished ==
  (Receiving /\ ~options.disableAuth) =>
    LET r == LoopReceiveThrowsOf(Cur)
    IN IF SomeFutureUnsettled
       THEN RejectedBy(r) # {} /\ Kinds(r.out, {"error"}) = <<>>
       ELSE RejectedBy(r) = {} /\ Kinds(r.out, {"error"}) = << Event("error", "", ReceiveError) >>

(* ---------------------------------------------------------------- C18 *)
InitializationError == TdlError("Error while creating client")

\* C18 (as the specification states it): when tdlib.create() throws during a
\* connect(), the future that connect() returned is rejected with the
\* initialization error, no receive loop is started and the session is not
\* marked initialized.
C18_FailedCreationRejectsConnect ==
  ~initialized =>
    LET r == Connected(FALSE)
        n == Len(connectP) + 1
    IN /\ r.connectP = Append(connectP, "rejected")
       /\ Kinds(r.out, {"connect.reject"}) = << Event("connect.reject", ToString(n), InitializationError) >>
       /\ r.loops = loops
       /\ r.loopPc = loopPc
       /\ ~r.initialized
       /\ r.client = 0

(* ---------------------------------------------------------------- C20 *)
ShutdownRequest == Request("close", TDL_MAGIC, "")

\* the step resolved a pending close() future
ResolvesClose(r) ==
  \E i \in DOMAIN closeP : closeP[i] = "pending" /\ r.closeP[i] = "resolved"

\* a close() future is resolved only by a step that publishes `destroy`
OnlyWithDestroy(r) ==
  ResolvesClose(r) => Kinds(r.out, {"destroy"}) = << Event("destroy", "", NoMsg) >>

\* C20: close() on a session that holds an engine handle sends exactly one
\* request, the sentinel-tagged `close`, and returns a future that is still
\* pending; a pending close() future is resolved only by a step that publishes
\* `destroy`; close() on a session without a handle sends nothing and its
\* future is resolved at once.
C20_CloseSendsOnceAndWaitsForDestroy ==
  /\ LET r == CloseOf(Cur)
     IN IF client # 0
        THEN /\ Kinds(r.out, {"send"}) = << Event("send", "", ShutdownRequest) >>
             /\ Kinds(r.out, {"destroy"}) = <<>>
             /\ r.closeP = Append(closeP, "pending")
             /\ OnlyWithDestroy(r)
        ELSE /\ r.out = <<>>
             /\ r.closeP = Append(closeP, "resolved")
  /\ OnlyWithDestroy(DestroyOf(Cur))
  /\ OnlyWithDestroy(Connected(TRUE))
  /\ OnlyWithDestroy(InvokeOf(Cur))
  /\ OnlyWithDestroy(PauseOf(Cur))
  /\ OnlyWithDestroy(ResumeOf(Cur))
  /\ OnlyWithDestroy(LoopIteration(Cur))
  /\ OnlyWithDestroy(LoopAfterResume(Cur))
  /\ Receiving => \A m \in LifeMessages : OnlyWithDestroy(Routed(m))
  /\ client # 0 => \A i \in DOMAIN closeP : closeP[i] = "pending" => i \in closeListeners

\* close() was called on a live session: its future is pending, the handle is
\* still held and the engine is about to answer
C20_Witness ==
  /\ client # 0
  /\ Receiving
  /\ \E i \in DOMAIN closeP : closeP[i] = "pending"

(* ---------------------------------------------------------------- C19 *)
ReadyUpdate == Msg("updateAuthorizationState", NoExtra, Ready, "", "")

\* the step resolved a pending login() future
ResolvesLogin(r) ==
  \E i \in DOMAIN loginP : loginP[i] = "pending" /\ r.loginP[i] = "resolved"

\* a login() future is resolved only by the step that routes a ready update,
\* or by the run of _handleAuth that such an update left waiting for login()
NotBeforeReady ==
  /\ Receiving => \A m \in LoginMessages : ResolvesLogin(Routed(m)) => m = ReadyUpdate
  /\ Runnable => (ResolvesLogin(TaskRunOf(Cur)) => tasks[FirstRunnable(Cur)].st = Ready)
  /\ ~ResolvesLogin(Connected(TRUE))
  /\ ~ResolvesLogin(LoginOf(Cur, "user"))
  /\ ~ResolvesLogin(InvokeOf(Cur))
  /\ ~ResolvesLogin(LoopIteration(Cur))

\* a ready update was routed: it resolved a login() future, or its run of
\* _handleAuth is waiting for login()
ReadyRouted ==
  \/ \E j \in DOMAIN tasks : tasks[j].st = Ready
  \/ \E j \in DOMAIN loginP : loginP[j] = "resolved"

\* C19 (as the specification states it): on a connected session, once login()
\* was called and a ready update was routed, in either order, the future that
\* login() returned eventually resolves; and no login() future resolves before
\* a ready update was routed.
C19_LoginResolvesOnceReady ==
  /\ []NotBeforeReady
  /\ \A i \in 1..MaxLogin :
       (initialized /\ client # 0 /\ i \in DOMAIN loginP /\ ReadyRouted)
         ~> (i \in DOMAIN loginP /\ loginP[i] = "resolved")

(* ---------------------------------------------------------------- C21 *)
\* C21 (as the specification states it): the future of a close() made on a
\* live session eventually resolves when the engine answers the shutdown
\* request with authorizationStateClosed, whatever the state of the session
\* when close() is called, a paused session included.
C21_CloseEventuallyResolves ==
  \A i \in 1..MaxClose :
    (i \in DOMAIN closeP /\ closeP[i] = "pending")
      ~> (i \in DOMAIN closeP /\ closeP[i] = "resolved")

(* ---------------------------------------------------------------- C22 *)
\* the step started a pull from the engine
Pulls(r) == Kinds(r.out, {"tdlib.receive"}) # <<>>

\* C22 (as the specification states it): whenever _loop starts pulling a
\* message from the engine the session is not paused, for every interleaving
\* of pause() and resume() with the steps of the loop.
C22_NeverPullsWhilePaused ==
  /\ (loopPc = "top" /\ Pulls(LoopIteration(Cur))) => ~paused
  /\ (Receiving /\ Pulls(LoopIteration(Cur))) => ~paused
  /\ (loopPc = "resumed" /\ Pulls(LoopAfterResume(Cur))) => ~paused
  /\ Pulls(Connected(TRUE)) => ~paused

(* ---------------------------------------------------------------- C23 *)
\* the handle the session held was released
TornDown == initialized /\ client = 0

\* no step of the loop starts a pull once the handle is released, and the loop
\* that ended takes no further step
NoPullAfterRelease ==
  /\ (TornDown /\ loopPc \in {"top", "receiving"}) => ~Pulls(LoopIteration(Cur))
  /\ (TornDown /\ loopPc = "resumed") => ~Pulls(LoopAfterResume(Cur))
  /\ loopPc = "done" => TornDown /\ ~Receiving

\* C23 (as the specification states it): after the session is torn down, by
\* destroy() or by a closed update, _loop eventually terminates, also when the
\* session was paused at that time, and it starts no pull from the engine once
\* it observed the released handle.
C23_LoopTerminatesAfterTeardown ==
  /\ []NoPullAfterRelease
  /\ TornDown ~> (loopPc = "done")

(* ---------------------------------------------------------------- C24 *)
\* what the general error path shows of a step
Funneled(r) == Kinds(r.out, {"error", "connect.reject", "login.reject"})

\* where _loop is after the first suspension of a new iteration
NextIteration ==
  IF paused THEN "waitResume" ELSE IF client = 0 THEN "done" ELSE "receiving"

\* C24: an exception raised while pulling (tdlib.receive throws) or while
\* routing (the awaited retry callback throws) is caught in _loop and handed to
\* _catchError, and the loop goes on to its next iteration: it suspends if
\* paused, pulls again if the handle is held, and ends only if the handle was
\* released.  A loop that ended belongs to a session without handle.
C24_ExceptionDoesNotEndLoop ==
  /\ Receiving =>
       LET r == LoopReceiveThrowsOf(Cur)
       IN /\ Funneled(r) = Funneled(CatchError(Cur, ReceiveError))
          /\ r.loopPc = NextIteration
          /\ Pulls(r) <=> (~paused /\ client # 0)
          /\ r.loops = loops
  /\ loopPc = "awaitCallback" =>
       LET r == LoopCallbackThrowsOf(Cur)
       IN /\ Funneled(r) = Funneled(CatchError(Cur, TdlError("callback failed")))
          /\ r.loopPc = "top"
          /\ LoopIteration(r).loopPc = NextIteration
  /\ loopPc = "done" => client = 0

\* the loop is pulling on a live session whose connect() future is pending:
\* the exception of this pull rejects it and the loop pulls again
C24_Witness ==
  /\ Receiving
  /\ client # 0
  /\ ~paused
  /\ connectP = << "pending" >>
  /\ LoopReceiveThrowsOf(Cur).loopPc = "receiving"

(* ---------------------------------------------------------------- C25 *)
\* C25 (as the specification states it): _loop starts the next pull only when
\* all handling started for the messages pulled before has completed: no run
\* of _handleAuth is still waiting for login() or for a credential callback.
C25_PullsOnlyAfterHandlingCompleted ==
  /\ (loopPc = "top" /\ Pulls(LoopIteration(Cur))) => tasks = <<>>
  /\ loopPc = "receiving" => tasks = <<>>

(* ---------------------------------------------------------------- C26 *)
\* the states _handleAuth handles without waiting for login()
HandshakeStates == { WaitTdlibParameters, WaitEncryptionKey, Closed }

HandshakeRequests == { "setTdlibParameters", "checkDatabaseEncryptionKey" }

\* the requests a step sent
SentBy(r) == Kinds(r.out, {"send"})

\* C26: as long as login() was not called, no credential callback is invoked
\* and no request other than the two handshake requests is sent: an
\* authorization state other than wait-tdlib-parameters, wait-encryption-key
\* and closed only leaves a run of _handleAuth suspended in _waitLogin, while
\* wait-tdlib-parameters and wait-encryption-key send their request at once.
C26_NoCredentialsBeforeLogin ==
  loginP = <<>> =>
    /\ ~Runnable
    /\ loopPc # "awaitCallback"
    /\ \A i \in DOMAIN tasks : tasks[i].pc = "waitLogin"
    /\ (Receiving /\ client # 0 /\ ~options.disableAuth) =>
         \A m \in AuthMessages :
           LET r == Routed(m)
           IN /\ Kinds(r.out, {"call"}) = <<>>
              /\ \A k \in DOMAIN SentBy(r) : SentBy(r)[k].msg.type \in HandshakeRequests
              /\ (m.type = "updateAuthorizationState" /\ m.arg \notin HandshakeStates) =>
                   /\ SentBy(r) = <<>>
                   /\ r.tasks = Append(tasks, Task(m.arg, "waitLogin"))
              /\ (m.type = "updateAuthorizationState" /\ m.arg = WaitTdlibParameters) =>
                   /\ Len(SentBy(r)) = 1
                   /\ SentBy(r)[1].msg.type = "setTdlibParameters"
                   /\ r.tasks = tasks
              /\ (m.type = "updateAuthorizationState" /\ m.arg = WaitEncryptionKey) =>
                   /\ Len(SentBy(r)) = 1
                   /\ SentBy(r)[1].msg.type = "checkDatabaseEncryptionKey"
                   /\ r.tasks = tasks

\* login() was not called yet and a credential-requiring state was routed:
\* its run of _handleAuth is suspended, and the loop pulls again
C26_Witness ==
  /\ loginP = <<>>
  /\ client # 0
  /\ Receiving
  /\ \E i \in DOMAIN tasks : tasks[i].st = WaitPhoneNumber /\ tasks[i].pc = "waitLogin"

(* ---------------------------------------------------------------- C27 *)
\* an option update that reports the engine version as a string
IsVersionReport(m) ==
  /\ m.type = "updateOption"
  /\ m.extra = NoExtra
  /\ m.name = "version"
  /\ m.vtype = "optionValueString"

\* the shape the stored version selects
ShapeOf(v) == IF VersionGte(v, TDLIB_1_8_6) THEN "flat" ELSE "nested"

\* C27: the setTdlibParameters request sent for wait-tdlib-parameters has the
\* shape selected by the version stored at that moment: flattened if and only
\* if it is at least 1.8.6, nested otherwise, the default of a session that
\* received no version included.  The stored version changes only when an
\* updateOption named version with a string value is routed, and becomes the
\* version it reports: no other message and no other operation changes it.
C27_ShapeFollowsStoredVersion ==
  /\ (Receiving /\ client # 0 /\ ~options.disableAuth) =>
       LET r == Routed(WaitParametersUpdate)
       IN /\ \A k \in DOMAIN SentBy(r) :
               SentBy(r)[k].msg = Request("setTdlibParameters", TDL_MAGIC, ShapeOf(version))
          /\ (~options.paramsTagged \/ ShapeOf(version) = "nested") => Len(SentBy(r)) = 1
  /\ Receiving =>
       \A m \in Messages :
         Routed(m).version = IF IsVersionReport(m) THEN VersionParse(m.arg) ELSE version
  /\ \A created \in BOOLEAN : Connected(created).version = version
  /\ LoginOf(Cur, "user").version = version
  /\ DestroyOf(Cur).version = version
  /\ LoopIteration(Cur).version = version
  /\ LoopReceiveThrowsOf(Cur).version = version
  /\ Runnable => TaskRunOf(Cur).version = version
  /\ (loops = 0) => version = TDLIB_DEFAULT

\* the engine reported 1.8.6 and wait-tdlib-parameters is about to be routed:
\* the flattened request is sent
C27_Witness ==
  /\ Receiving
  /\ client # 0
  /\ ~options.disableAuth
  /\ ~options.paramsTagged
  /\ version = VersionParse("1.8.6")
  /\ SentBy(Routed(WaitParametersUpdate))
       = << Event("send", "", Request("setTdlibParameters", TDL_MAGIC, "flat")) >>

(* ---------------------------------------------------------------- C28 *)
\* C28: at most one receive loop is ever started on a session: connect()
\* starts one only on a session that is not yet initialized and whose
\* tdlib.create() succeeds, which marks it initialized; a connect() retried
\* after a failed creation starts the first loop, and a connect() after that,
\* after destroy() included, starts none.
C28_AtMostOneLoop ==
  /\ loops <= 1
  /\ initialized <=> loops = 1
  /\ \A created \in BOOLEAN :
       LET r == Connected(created)
       IN /\ r.loops <= 1
          /\ r.loops = IF ~initialized /\ created THEN 1 ELSE loops
  /\ LoginOf(Cur, "user").loops = loops
  /\ DestroyOf(Cur).loops = loops
  /\ LoopIteration(Cur).loops = loops
  /\ LoopReceiveThrowsOf(Cur).loops = loops
  /\ Runnable => TaskRunOf(Cur).loops = loops
  /\ Receiving => \A m \in HandshakeMessages : Routed(m).loops = loops

\* the first connect() failed to create the engine, the second one started
\* the loop, the session was then destroyed: a further connect() starts none
C28_Witness ==
  /\ Len(connectP) = 2
  /\ connectP[1] = "rejected"
  /\ initialized
  /\ client = 0
  /\ loops = 1
  /\ Connected(TRUE).loops = 1

(* ---------------------------------------------------------------- C29 *)
\* the teardown a step performed
Destroys(r) == Kinds(r.out, {"tdlib.destroy", "destroy"})

OneTeardown == << Event("tdlib.destroy", "", NoMsg), Event("destroy", "", NoMsg) >>

\* a step tears down exactly when it releases the handle the session held
TearsDownOnlyHeldHandle(r) ==
  Destroys(r) = IF client # 0 /\ r.client = 0 THEN OneTeardown ELSE <<>>

\* C29: teardown is idempotent.  A step calls the engine's destroy and
\* publishes `destroy`, once each, exactly when it releases the handle the
\* session holds; the session creates at most one handle and never gets one
\* again after the release, so over any sequence of destroy(), close() and
\* closed notifications both happen at most once; destroy() on a session
\* without handle changes nothing and publishes nothing.
C29_TeardownIdempotent ==
  /\ client = 0 => DestroyOf(Cur) = Cur
  /\ client # 0 => DestroyOf(Cur).client = 0
  /\ TearsDownOnlyHeldHandle(DestroyOf(Cur))
  /\ TearsDownOnlyHeldHandle(CloseOf(Cur))
  /\ CloseOf(Cur).client = client
  /\ Receiving => \A m \in LifeMessages : TearsDownOnlyHeldHandle(Routed(m))
  /\ (Receiving /\ client # 0) => Routed(ClosedUpdate).client = 0
  /\ TearsDownOnlyHeldHandle(Connected(TRUE))
  /\ TearsDownOnlyHeldHandle(InvokeOf(Cur))
  /\ TearsDownOnlyHeldHandle(PauseOf(Cur))
  /\ TearsDownOnlyHeldHandle(ResumeOf(Cur))
  /\ TearsDownOnlyHeldHandle(LoopIteration(Cur))
  /\ TearsDownOnlyHeldHandle(LoopAfterResume(Cur))
  /\ handles <= 1
  /\ client \in {0, handles}
  /\ TornDown => \A created \in BOOLEAN : Connected(created).client = 0

\* destroy() released the handle while close() was waiting and a pull was in
\* flight: destroy() again, or the closed update arriving now, tears down
\* nothing more
C29_Witness ==
  /\ TornDown
  /\ Receiving
  /\ closeP = << "resolved" >>
  /\ Destroys(Routed(ClosedUpdate)) = <<>>
  /\ DestroyOf(Cur) = Cur

(* ---------------------------------------------------------------- C30 *)
\* how many times a step published `auth-not-needed`
AuthNotNeededCount(r) == Len(Kinds(r.out, {"auth-not-needed"}))

\* _authNeeded is set exactly by the steps that publish `auth-needed`, so it
\* tells whether `auth-needed` was published earlier in the session
FlagFollowsSignal(r) == r.authNeeded = (authNeeded \/ AuthNeededCount(r) > 0)

\* C30: routing a ready update publishes `auth-not-needed`, once, if and only
\* if `auth-needed` was not published earlier in the session; no other step
\* publishes it, and the step that publishes it does not publish
\* `auth-needed`: `auth-not-needed` never follows `auth-needed`.
C30_NotNeededOnlyBeforeNeeded ==
  /\ (Receiving /\ ~options.disableAuth) =>
       \A m \in AuthMessages :
         LET r == Routed(m)
         IN /\ AuthNotNeededCount(r) = IF m = ReadyUpdate /\ ~authNeeded THEN 1 ELSE 0
            /\ AuthNotNeededCount(r) > 0 => AuthNeededCount(r) = 0
            /\ FlagFollowsSignal(r)
  /\ Runnable =>
       LET r == TaskRunOf(Cur)
       IN AuthNotNeededCount(r) = 0 /\ FlagFollowsSignal(r)
  /\ \A created \in BOOLEAN :
       AuthNotNeededCount(Connected(created)) = 0 /\ FlagFollowsSignal(Connected(created))
  /\ \A kind \in {"user", "bot"} :
       AuthNotNeededCount(LoginOf(Cur, kind)) = 0 /\ FlagFollowsSignal(LoginOf(Cur, kind))
  /\ AuthNotNeededCount(LoopIteration(Cur)) = 0 /\ FlagFollowsSignal(LoopIteration(Cur))
  /\ loopPc = "awaitCallback" =>
       /\ AuthNotNeededCount(LoopCallbackReturnsOf(Cur)) = 0
       /\ FlagFollowsSignal(LoopCallbackReturnsOf(Cur))
       /\ AuthNotNeededCount(LoopCallbackThrowsOf(Cur)) = 0
       /\ FlagFollowsSignal(LoopCallbackThrowsOf(Cur))
  /\ \A i \in DOMAIN tasks :
       tasks[i].pc = "callback" =>
         /\ AuthNotNeededCount(TaskCallbackReturnsOf(Cur, i)) = 0
         /\ FlagFollowsSignal(TaskCallbackReturnsOf(Cur, i))
         /\ AuthNotNeededCount(TaskCallbackThrowsOf(Cur, i)) = 0
         /\ FlagFollowsSignal(TaskCallbackThrowsOf(Cur, i))

\* `auth-needed` was published and the engine is about to report ready:
\* `auth-not-needed` is not published
C30_Witness ==
  /\ authNeeded
  /\ Receiving
  /\ client # 0
  /\ isDeferSet(loginDefer)
  /\ AuthNotNeededCount(Routed(ReadyUpdate)) = 0
  /\ Routed(ReadyUpdate).loginP # loginP

(* ---------------------------------------------------------------- C31 *)
\* a message that is not an error and carries the reserved sentinel
SentinelReply(m) == m.type # "error" /\ m.extra = TDL_MAGIC

\* C31: the reserved sentinel is never a key of the pending-request map:
\* invoke() registers and sends its request under a fresh uuid; and routing a
\* message that is not an error and carries the sentinel publishes it on
\* `response` and does nothing else: nothing on `update`, no request settled,
\* no field of the session changed.
C31_SentinelIsNoRequest ==
  /\ TDL_MAGIC \notin fetching
  /\ TDL_MAGIC \notin InvokeOf(Cur).fetching
  /\ \A k \in DOMAIN SentBy(InvokeOf(Cur)) : SentBy(InvokeOf(Cur))[k].msg.extra # TDL_MAGIC
  /\ Receiving =>
       \A m \in RouterMessages :
         SentinelReply(m) =>
           LET r == Routed(m)
           IN /\ r.out = << Event("response", "", m) >>
              /\ r.invokeP = invokeP
              /\ r.fetching = fetching
              /\ [r EXCEPT !.out = <<>>, !.loopPc = loopPc] = Cur

\* a request is pending and the engine is about to answer one of the
\* session's own sentinel-tagged requests
C31_Witness ==
  /\ Receiving
  /\ client # 0
  /\ fetching # {}
  /\ \E m \in RouterMessages :
       /\ SentinelReply(m)
       /\ m.type = "updateAuthorizationState"
       /\ Kinds(Routed(m).out, {"update"}) = <<>>

(* ---------------------------------------------------------------- C32 *)
\* the calls of the engine a step made
EngineCalls(r) ==
  Kinds(r.out, {"tdlib.create", "send", "tdlib.receive", "tdlib.execute", "tdlib.destroy"})

\* C32: once the handle was released by teardown no operation calls the
\* engine any more: invoke() registers its request but transmits nothing, the
\* session's own sends transmit nothing, execute() returns null, _receive
\* returns without calling tdlib.receive and the loop starts no pull, close()
\* resolves at once without sending, destroy() and connect() do nothing to the
\* engine, and routing the message of the pull that was in flight calls
\* nothing either.
C32_NoEngineCallAfterRelease ==
  TornDown =>
    /\ EngineCalls(InvokeOf(Cur)) = <<>>
    /\ InvokeOf(Cur).fetching = fetching \cup {Uuidv4(Cur)}
    /\ EngineCalls(SendTdl(Cur, "close", "")) = <<>>
    /\ \A res \in {NoMsg, Msg("ok", NoExtra, "", "", "")} :
         ExecuteOf(Cur, res).out = << Event("execute.return", "", NoMsg) >>
    /\ Receive(Cur) = Cur
    /\ EngineCalls(LoopIteration(Cur)) = <<>>
    /\ EngineCalls(LoopAfterResume(Cur)) = <<>>
    /\ LoopAfterResume(Cur).loopPc = "done"
    /\ CloseOf(Cur).out = <<>>
    /\ CloseOf(Cur).closeP = Append(closeP, "resolved")
    /\ DestroyOf(Cur) = Cur
    /\ \A created \in BOOLEAN : EngineCalls(Connected(created)) = <<>>
    /\ EngineCalls(PauseOf(Cur)) = <<>>
    /\ EngineCalls(ResumeOf(Cur)) = <<>>
    /\ Receiving => \A m \in LifeMessages : EngineCalls(Routed(m)) = <<>>

\* the handle was released while a request was pending and the loop was
\* pulling; a further invoke() is registered and not transmitted
C32_Witness ==
  /\ TornDown
  /\ fetching # {}
  /\ Receiving
  /\ uuids < MaxInvoke
  /\ InvokeOf(Cur).fetching # fetching
  /\ SentBy(InvokeOf(Cur)) = <<>>

(* ---------------------------------------------------------------- C33 *)
\* the connect() futures that are pending on a connect gate that already fired
Stranded == { i \in DOMAIN connectP : connectP[i] = "pending" /\ connectDefer.done }

\* the step leaves the fired gate fired and the futures stranded on it pending
KeepsStranded(r) ==
  /\ connectDefer.done => r.connectDefer.done
  /\ \A i \in Stranded : r.connectP[i] = "pending"

\* C33: the connect gate is not reusable.  After a connect() was rejected
\* because tdlib.create() threw, a later connect() is accepted: it is not
\* rejected, and when creation now succeeds it obtains the handle and starts
\* the loop; but the gate already fired, so the future it returned is pending
\* and no later step resolves or rejects it.
C33_ConnectGateNotReusable ==
  /\ (~initialized /\ connectP # <<>>) =>
       /\ connectDefer.done
       /\ \A created \in BOOLEAN :
            LET r == Connected(created)
                n == Len(connectP) + 1
            IN /\ r.connectP = Append(connectP, "pending")
               /\ Kinds(r.out, {"connect.resolve", "connect.reject"}) = <<>>
               /\ r.connectDefer = [inner |-> n, done |-> TRUE]
               /\ created => (r.client # 0 /\ r.loops = loops + 1 /\ r.initialized)
               /\ ~created => (r.client = 0 /\ r.loops = loops /\ ~r.initialized)
  /\ \A created \in BOOLEAN : KeepsStranded(Connected(created))
  /\ KeepsStranded(LoginOf(Cur, "user"))
  /\ KeepsStranded(DestroyOf(Cur))
  /\ KeepsStranded(LoopIteration(Cur))
  /\ KeepsStranded(LoopReceiveThrowsOf(Cur))
  /\ Runnable => KeepsStranded(TaskRunOf(Cur))
  /\ Receiving => \A m \in HandshakeMessages : KeepsStranded(Routed(m))

\* the first connect() failed to create the engine, the second one created it
\* and started the loop; the engine (1.8.6) is about to ask for the parameters,
\* which would resolve the gate, and the second future stays pending
C33_Witness ==
  /\ connectP = << "rejected", "pending" >>
  /\ Stranded = {2}
  /\ client # 0
  /\ loops = 1
  /\ Receiving
  /\ ~options.disableAuth
  /\ ~options.paramsTagged
  /\ version = VersionParse("1.8.6")
  /\ Routed(WaitParametersUpdate).connectP = connectP

====
